---- MODULE Spec2Model ----
(***************************************************************************)
(* Task Orchestrator Dashboard: the connection pool                        *)
(* (services/database_pool.py), the push channel                           *)
(* (src/services/websocket_manager.py) and the REST handlers of            *)
(* src/server_v2.py over the SQLite tables projects / features / tasks.    *)
(*                                                                         *)
(* Three specifications share the variables:                               *)
(*   SpecPool  workers racing through get_connection / close_all           *)
(*   SpecWs    connect / disconnect racing with one broadcast              *)
(*   Spec      the REST handlers over a stored state                       *)
(***************************************************************************)
EXTENDS Integers, Sequences, FiniteSets, TLC

VARIABLES
    \* ---- DatabasePool (services/database_pool.py)
    _connections,   \* self._connections: thread id -> connection (0 = no entry)
    _lock,          \* self._lock: 0 = free, else the worker holding it
    pc,             \* worker -> where it stands in get_connection / close_all
    thread_id,      \* worker -> the local thread_id of get_connection while it is used (line 48)
    connection,     \* worker -> the local connection of line 75 (0 = None)
    created,        \* sequence: connection c was created by worker created[c]
    closed,         \* connections on which conn.close() has run
    refreshes,      \* number of close_all calls started
    err,            \* worker -> the exception its last call raised ("none")
    handed,         \* worker -> connections yielded to it since the last close_all
    \* ---- WebSocketManager (src/services/websocket_manager.py)
    active_connections, \* self.active_connections
    bpc,            \* the broadcast coroutine: "idle", "sending", "done", "raised"
    it_used,        \* the set iterator's size snapshot (CPython si_used)
    visited,        \* observers the iterator has passed
    cur,            \* the observer whose send_json is awaited (0 = none)
    disconnected,   \* broadcast's local set of observers whose send raised
    delivered,      \* observers whose send_json of this broadcast returned
    stayed,         \* observers connected from the broadcast's start until now
    \* ---- the server (src/server_v2.py) and its SQLite file
    projects,       \* table projects: sequence of rows in rowid order
    features,       \* table features
    tasks,          \* table tasks
    db_pool,        \* the global db_pool: "none", or the mode of the pool: "rw" / "ro"
    clock,          \* datetime.now(), counted in writes
    resp,           \* the last request and its answer
    \* ---- the pure helpers of the server, called on their own
    call            \* the calls made so far, each applied to the result before it

poolVars == <<_connections, _lock, pc, thread_id, connection, created, closed,
              refreshes, err, handed>>

wsVars == <<active_connections, bpc, it_used, visited, cur, disconnected,
            delivered, stayed>>

apiVars == <<projects, features, tasks, db_pool, clock, resp>>

vars == <<poolVars, wsVars, apiVars, call>>

notPool == <<wsVars, apiVars, call>>
notWs == <<poolVars, apiVars, call>>
notApi == <<poolVars, wsVars, call>>
notCall == <<poolVars, wsVars, apiVars>>

\* ------------------------------------------------------------------ bounds
NumWorkers == 2
MaxRefresh == 2
NumClients == 3

Workers == 1..NumWorkers
Clients == 1..NumClients

\* ============================================================ text and bytes
\* A Python str or an SQLite TEXT is the sequence of its character codes
\* (ASCII), a bytes object or a BLOB the sequence of its bytes.
DASH == 45
UNDERSCORE == 95
SPACE == 32

IsUpperCode(c) == c \in 65..90
IsLowerCode(c) == c \in 97..122
IsDigitCode(c) == c \in 48..57

\* str.lower() / LOWER(), str.upper() / UPPER()
LowerCode(c) == IF IsUpperCode(c) THEN c + 32 ELSE c
UpperCode(c) == IF IsLowerCode(c) THEN c - 32 ELSE c
Lower(s) == [i \in 1..Len(s) |-> LowerCode(s[i])]
Upper(s) == [i \in 1..Len(s) |-> UpperCode(s[i])]

\* s.replace(a, b) for single characters; s.replace(a, '')
ReplaceChar(s, a, b) == [i \in 1..Len(s) |-> IF s[i] = a THEN b ELSE s[i]]
RemoveChar(s, a) == SelectSeq(s, LAMBDA c : c # a)

\* str.strip(): leading and trailing whitespace removed
IsSpaceCode(c) == c = SPACE \/ c \in 9..13
RECURSIVE LStrip(_)
LStrip(s) == IF s # <<>> /\ IsSpaceCode(Head(s)) THEN LStrip(Tail(s)) ELSE s
RECURSIVE RStrip(_)
RStrip(s) ==
    IF s # <<>> /\ IsSpaceCode(s[Len(s)]) THEN RStrip(SubSeq(s, 1, Len(s) - 1)) ELSE s
Strip(s) == RStrip(LStrip(s))

\* the value of a hexadecimal digit, -1 for any other character
HexVal(c) ==
    IF IsDigitCode(c) THEN c - 48
    ELSE IF c \in 97..102 THEN c - 87
    ELSE IF c \in 65..70 THEN c - 55
    ELSE 0 - 1

\* the digit of a value 0..15: bytes.hex() writes lower case, HEX() upper case
HexDigitLower(n) == IF n < 10 THEN 48 + n ELSE 87 + n
HexDigitUpper(n) == IF n < 10 THEN 48 + n ELSE 55 + n

\* bytes.fromhex(s): ASCII whitespace between bytes is skipped, every byte is
\* two hex digits, anything else raises ValueError.  [ok, bytes]
RECURSIVE FromHex(_)
FromHex(s) ==
    IF s = <<>> THEN [ok |-> TRUE, bytes |-> <<>>]
    ELSE IF IsSpaceCode(Head(s)) THEN FromHex(Tail(s))
    ELSE IF Len(s) < 2 \/ HexVal(s[1]) < 0 \/ HexVal(s[2]) < 0
    THEN [ok |-> FALSE, bytes |-> <<>>]
    ELSE LET rest == FromHex(SubSeq(s, 3, Len(s))) IN
         [ok |-> rest.ok,
          bytes |-> IF rest.ok
                    THEN <<16 * HexVal(s[1]) + HexVal(s[2])>> \o rest.bytes
                    ELSE <<>>]

\* bytes.hex()
HexLower(bs) ==
    [i \in 1..(2 * Len(bs)) |->
        LET b == bs[(i + 1) \div 2] IN
        HexDigitLower(IF i % 2 = 1 THEN b \div 16 ELSE b % 16)]

\* HEX(X)
HexUpper(bs) ==
    [i \in 1..(2 * Len(bs)) |->
        LET b == bs[(i + 1) \div 2] IN
        HexDigitUpper(IF i % 2 = 1 THEN b \div 16 ELSE b % 16)]

\* ------------------------------------------------------------ stored values
\* An SQLite value / a bound Python parameter: NULL (None), TEXT (str), BLOB (bytes).
NULL == [t |-> "null", b |-> <<>>]
Text(s) == [t |-> "text", b |-> s]
Blob(bs) == [t |-> "blob", b |-> bs]
IsNull(v) == v.t = "null"

\* X = Y in a WHERE clause: NULL never compares equal, a BLOB never equals a
\* TEXT, two values of one storage class compare byte by byte
SqlEq(x, y) == x.t # "null" /\ y.t # "null" /\ x.t = y.t /\ x.b = y.b

\* CAST(X AS TEXT): a BLOB's bytes are reinterpreted as text
CastText(x) == IF IsNull(x) THEN NULL ELSE Text(x.b)
\* LOWER(X), UPPER(X), REPLACE(X, '-', ''), HEX(X), COALESCE(X, Y)
SqlLower(x) == IF IsNull(x) THEN NULL ELSE Text(Lower(x.b))
SqlUpper(x) == IF IsNull(x) THEN NULL ELSE Text(Upper(x.b))
SqlStripDash(x) == IF IsNull(x) THEN NULL ELSE Text(RemoveChar(x.b, DASH))
SqlHex(x) == Text(HexUpper(x.b))
Coalesce(x, y) == IF IsNull(x) THEN y ELSE x

\* ---------------------------------------------------------- identifier codec
UUID_BYTES == 16

\* _uuid_params: (uuid_bytes or None, uuid_str)
_uuid_params(uuid_str) ==
    LET h == FromHex(RemoveChar(uuid_str, DASH)) IN
    [bytes |-> IF h.ok THEN Blob(h.bytes) ELSE NULL, str |-> Text(uuid_str)]

\* uuid_nodash = uuid_str.replace('-', '') if uuid_str else None
_uuid_nodash(uuid_str) ==
    IF uuid_str = <<>> THEN NULL ELSE Text(RemoveChar(uuid_str, DASH))

\* the rendering without the grouping
RenderUndashed(v) ==
    IF v.t = "blob" /\ Len(v.b) = UUID_BYTES THEN Text(HexLower(v.b)) ELSE v

\* dict_from_row on one column: a 16-byte BLOB becomes its lower-case hex in
\* the 8-4-4-4-12 grouping, any other value passes through
RenderValue(v) ==
    IF v.t = "blob" /\ Len(v.b) = UUID_BYTES
    THEN LET h == HexLower(v.b) IN
         Text(SubSeq(h, 1, 8) \o <<DASH>> \o SubSeq(h, 9, 12) \o <<DASH>>
              \o SubSeq(h, 13, 16) \o <<DASH>> \o SubSeq(h, 17, 20) \o <<DASH>>
              \o SubSeq(h, 21, 32))
    ELSE v

\* The parameters a handler binds to its lookup: (uuid_bytes, uuid_str,
\* uuid_nodash), e.g. lines 853-854 and 863.
IdParams(id_str) ==
    [bytes |-> _uuid_params(id_str).bytes,
     str |-> _uuid_params(id_str).str,
     nodash |-> _uuid_nodash(id_str)]

\* WHERE col = ? OR LOWER(CAST(col AS TEXT)) = LOWER(?)
\*    OR LOWER(REPLACE(CAST(col AS TEXT), '-', '')) = LOWER(?)
NoNodashForm(col, p) ==
    \/ SqlEq(col, p.bytes)
    \/ SqlEq(SqlLower(CastText(col)), SqlLower(p.str))

MatchesId(col, p) ==
    \/ SqlEq(col, p.bytes)
    \/ SqlEq(SqlLower(CastText(col)), SqlLower(p.str))
    \/ SqlEq(SqlLower(SqlStripDash(CastText(col))), SqlLower(p.nodash))

\* get_task adds: OR UPPER(HEX(id)) = UPPER(?)
MatchesIdOrHex(col, p) ==
    \/ MatchesId(col, p)
    \/ SqlEq(SqlUpper(SqlHex(col)), SqlUpper(p.nodash))

\* ------------------------------------------------------------- vocabulary
\* words as character codes
ui_pending == <<112, 101, 110, 100, 105, 110, 103>>   \* "pending"
ui_in_progress == <<105, 110, 45, 112, 114, 111, 103, 114, 101, 115, 115>>   \* "in-progress"
ui_in_progress_us == <<105, 110, 95, 112, 114, 111, 103, 114, 101, 115, 115>>   \* "in_progress"
ui_completed == <<99, 111, 109, 112, 108, 101, 116, 101, 100>>   \* "completed"
ui_cancelled == <<99, 97, 110, 99, 101, 108, 108, 101, 100>>   \* "cancelled"
ui_deferred == <<100, 101, 102, 101, 114, 114, 101, 100>>   \* "deferred"
ui_blocked == <<98, 108, 111, 99, 107, 101, 100>>   \* "blocked"
DB_PENDING == <<80, 69, 78, 68, 73, 78, 71>>   \* "PENDING"
DB_IN_PROGRESS == <<73, 78, 95, 80, 82, 79, 71, 82, 69, 83, 83>>   \* "IN_PROGRESS"
DB_COMPLETED == <<67, 79, 77, 80, 76, 69, 84, 69, 68>>   \* "COMPLETED"
DB_CANCELLED == <<67, 65, 78, 67, 69, 76, 76, 69, 68>>   \* "CANCELLED"
DB_DEFERRED == <<68, 69, 70, 69, 82, 82, 69, 68>>   \* "DEFERRED"
DB_BLOCKED == <<66, 76, 79, 67, 75, 69, 68>>   \* "BLOCKED"
DB_INPROGRESS == <<73, 78, 80, 82, 79, 71, 82, 69, 83, 83>>   \* "INPROGRESS"
DB_DOING == <<68, 79, 73, 78, 71>>   \* "DOING"
DB_DONE == <<68, 79, 78, 69>>   \* "DONE"
DB_TODO == <<84, 79, 68, 79>>   \* "TODO"
pr_high == <<104, 105, 103, 104>>   \* "high"
pr_medium == <<109, 101, 100, 105, 117, 109>>   \* "medium"
pr_low == <<108, 111, 119>>   \* "low"
in_urgent == <<117, 114, 103, 101, 110, 116>>   \* "urgent"
in_In_Progress == <<73, 110, 95, 80, 114, 111, 103, 114, 101, 115, 115>>   \* "In_Progress"
in_COMPLETED == <<67, 79, 77, 80, 76, 69, 84, 69, 68>>   \* "COMPLETED"
in_High == <<72, 105, 103, 104>>   \* "High"
in_critical == <<99, 114, 105, 116, 105, 99, 97, 108>>   \* "critical"
DB_HIGH == <<72, 73, 71, 72>>   \* "HIGH"
DB_MEDIUM == <<77, 69, 68, 73, 85, 77>>   \* "MEDIUM"
DB_LOW == <<76, 79, 87>>   \* "LOW"
title_a == <<97>>   \* "a"
title_b == <<98>>   \* "b"
in_zz == <<122, 122>>   \* "zz"
in_ab == <<97, 98>>   \* "ab"

\* lines 828, 1114, 1249: valid_statuses
valid_statuses ==
    {ui_pending, ui_in_progress, ui_in_progress_us, ui_completed, ui_cancelled,
     ui_deferred, ui_blocked}

\* lines 829, 1115, 1250: update.status.lower().replace('_', '-')
normalized_status(status) == ReplaceChar(Lower(status), UNDERSCORE, DASH)

\* the normalized input stored as it is
StoreNormalized(status) == normalized_status(status)

\* lines 838-847: db_status_map.get(normalized_status, update.status.upper())
db_status(status) ==
    LET n == normalized_status(status) IN
    CASE n = ui_pending -> DB_PENDING
      [] n = ui_in_progress -> DB_IN_PROGRESS
      [] n = ui_in_progress_us -> DB_IN_PROGRESS
      [] n = ui_completed -> DB_COMPLETED
      [] n = ui_cancelled -> DB_CANCELLED
      [] n = ui_deferred -> DB_DEFERRED
      [] n = ui_blocked -> DB_BLOCKED
      [] OTHER -> Upper(status)

\* lines 928-938: valid_priorities, update.priority.lower(), .upper()
valid_priorities == {pr_high, pr_medium, pr_low}
normalized_priority(priority) == Lower(priority)
db_priority(priority) == Upper(normalized_priority(priority))

\* lines 1018, 1137, 1268: 1 <= complexity <= 10
MIN_COMPLEXITY == 1
MAX_COMPLEXITY == 10
valid_complexity(c) == MIN_COMPLEXITY <= c /\ c <= MAX_COMPLEXITY

\* the stored word in lower case, whatever it is
LowerStatus(raw_status) == Lower(raw_status)

\* _normalize_status: DB status -> UI status
_normalize_status(raw_status) ==
    IF raw_status = <<>> THEN raw_status
    ELSE LET u == Upper(Strip(raw_status)) IN
         CASE u = DB_IN_PROGRESS -> ui_in_progress
           [] u = DB_INPROGRESS -> ui_in_progress
           [] u = DB_DOING -> ui_in_progress
           [] u = DB_COMPLETED -> ui_completed
           [] u = DB_DONE -> ui_completed
           [] u = DB_PENDING -> ui_pending
           [] u = DB_TODO -> ui_pending
           [] u = DB_BLOCKED -> ui_blocked
           [] u = DB_CANCELLED -> ui_cancelled
           [] u = DB_DEFERRED -> ui_deferred
           [] OTHER -> Lower(raw_status)

\* ===================================================================== pool
\* Thread ids are distinct per live thread (threading.get_ident()).
SharedThreadId(w) == 1

_get_thread_id(w) == w

NoConnections == [t \in Workers |-> 0]

PoolInit ==
    /\ _connections = NoConnections
    /\ _lock = 0
    /\ pc = [w \in Workers |-> "idle"]
    /\ thread_id = [w \in Workers |-> 0]
    /\ connection = [w \in Workers |-> 0]
    /\ created = <<>>
    /\ closed = {}
    /\ refreshes = 0
    /\ err = [w \in Workers |-> "none"]
    /\ handed = [w \in Workers |-> {}]

\* line 50: with self._lock (blocks until the lock is free)
LockAcquire(w, to) ==
    /\ pc[w] = "idle"
    /\ _lock = 0
    /\ _lock' = w
    /\ err' = [err EXCEPT ![w] = "none"]
    /\ pc' = [pc EXCEPT ![w] = to]

\* lines 48-50: thread_id = self._get_thread_id(), then the lock is taken
GetConnectionLock(w) ==
    /\ LockAcquire(w, "gc_locked")
    /\ thread_id' = [thread_id EXCEPT ![w] = _get_thread_id(w)]
    /\ UNCHANGED <<_connections, connection, created, closed, refreshes, handed>>
    /\ UNCHANGED notPool

\* lines 51-69, then the with-block's exit releases the lock
GetConnectionCreate(w) ==
    /\ pc[w] = "gc_locked"
    /\ IF _connections[thread_id[w]] = 0
       THEN /\ created' = Append(created, w)
            /\ _connections' = [_connections EXCEPT ![thread_id[w]] = Len(created) + 1]
       ELSE UNCHANGED <<created, _connections>>
    /\ _lock' = 0
    /\ pc' = [pc EXCEPT ![w] = "gc_fetch"]
    /\ UNCHANGED <<thread_id, connection, closed, refreshes, err, handed>>
    /\ UNCHANGED notPool

\* lines 71-73: sqlite3.connect (or a PRAGMA) raises; the lock is released, the
\* exception leaves get_connection
GetConnectionCreateFails(w) ==
    /\ pc[w] = "gc_locked"
    /\ _connections[thread_id[w]] = 0
    /\ _lock' = 0
    /\ err' = [err EXCEPT ![w] = "connect_error"]
    /\ pc' = [pc EXCEPT ![w] = "idle"]
    /\ thread_id' = [thread_id EXCEPT ![w] = 0]
    /\ UNCHANGED <<_connections, connection, created, closed, refreshes, handed>>
    /\ UNCHANGED notPool

\* lines 75-80: connection = self._connections.get(thread_id); raise if None; yield
GetConnectionFetch(w) ==
    /\ pc[w] = "gc_fetch"
    /\ LET c == _connections[thread_id[w]] IN
       IF c = 0
       THEN /\ err' = [err EXCEPT ![w] = "failed_get"]
            /\ pc' = [pc EXCEPT ![w] = "idle"]
            /\ UNCHANGED <<connection, handed>>
       ELSE /\ connection' = [connection EXCEPT ![w] = c]
            /\ handed' = [handed EXCEPT ![w] = @ \cup {c}]
            /\ pc' = [pc EXCEPT ![w] = "in_block"]
            /\ UNCHANGED err
    /\ thread_id' = [thread_id EXCEPT ![w] = 0]
    /\ UNCHANGED <<_connections, _lock, created, closed, refreshes>>
    /\ UNCHANGED notPool

\* the caller's block runs a statement on the yielded connection; sqlite3 raises
\* ProgrammingError on a closed connection (lines 81-83 log and re-raise)
UseConnection(w) ==
    /\ pc[w] = "in_block"
    /\ IF connection[w] \in closed
       THEN /\ err' = [err EXCEPT ![w] = "closed_conn"]
            /\ pc' = [pc EXCEPT ![w] = "idle"]
            /\ connection' = [connection EXCEPT ![w] = 0]
       ELSE UNCHANGED <<err, pc, connection>>
    /\ UNCHANGED <<_connections, _lock, thread_id, created, closed, refreshes, handed>>
    /\ UNCHANGED notPool

\* the caller's block ends normally
ExitBlock(w) ==
    /\ pc[w] = "in_block"
    /\ pc' = [pc EXCEPT ![w] = "idle"]
    /\ connection' = [connection EXCEPT ![w] = 0]
    /\ UNCHANGED <<_connections, _lock, thread_id, created, closed, refreshes, err, handed>>
    /\ UNCHANGED notPool

\* line 87: close_all is called (refresh_database, shutdown_event) and takes
\* the lock
CloseAllLock(w) ==
    /\ refreshes < MaxRefresh
    /\ LockAcquire(w, "ca_locked")
    /\ refreshes' = refreshes + 1
    /\ UNCHANGED <<_connections, thread_id, connection, created, closed, handed>>
    /\ UNCHANGED notPool

PooledConnections == {_connections[t] : t \in Workers} \ {0}

\* line 95: self._connections.clear()
ClearKeepsEntries(conns) == conns

ClearConnections(conns) == NoConnections

\* lines 88-95: close every pooled connection, then clear the dictionary
CloseAllBody(w) ==
    /\ pc[w] = "ca_locked"
    /\ closed' = closed \cup PooledConnections
    /\ _connections' = ClearConnections(_connections)
    /\ handed' = [x \in Workers |-> {}]
    /\ pc' = [pc EXCEPT ![w] = "ca_cleared"]
    /\ UNCHANGED <<_lock, thread_id, connection, created, refreshes, err>>
    /\ UNCHANGED notPool

\* line 96 and the with-block's exit
CloseAllRelease(w) ==
    /\ pc[w] = "ca_cleared"
    /\ _lock' = 0
    /\ pc' = [pc EXCEPT ![w] = "idle"]
    /\ UNCHANGED <<_connections, thread_id, connection, created, closed, refreshes, err, handed>>
    /\ UNCHANGED notPool

NextPool ==
    \E w \in Workers :
        \/ GetConnectionLock(w)
        \/ GetConnectionCreate(w)
        \/ GetConnectionCreateFails(w)
        \/ GetConnectionFetch(w)
        \/ UseConnection(w)
        \/ ExitBlock(w)
        \/ CloseAllLock(w)
        \/ CloseAllBody(w)
        \/ CloseAllRelease(w)

\* ============================================================= push channel
WsInit ==
    /\ active_connections = {}
    /\ bpc = "idle"
    /\ it_used = 0
    /\ visited = {}
    /\ cur = 0
    /\ disconnected = {}
    /\ delivered = {}
    /\ stayed = {}

\* connect, lines 29-31: after accept() returns the observer is added.  While a
\* broadcast iterates, the new entry lands in a slot the iterator has already
\* passed or in one it has yet to reach.
Connect(c) ==
    /\ c \notin active_connections
    /\ active_connections' = active_connections \cup {c}
    /\ \/ UNCHANGED visited
       \/ /\ bpc = "sending"
          /\ visited' = visited \cup {c}
    /\ UNCHANGED <<bpc, it_used, cur, disconnected, delivered, stayed>>
    /\ UNCHANGED notWs

\* disconnect, lines 40-44 (websocket_endpoint on WebSocketDisconnect, and
\* send_to_client when its send raises)
Disconnect(c) ==
    /\ c \in active_connections
    /\ active_connections' = active_connections \ {c}
    /\ stayed' = stayed \ {c}
    /\ UNCHANGED <<bpc, it_used, visited, cur, disconnected, delivered>>
    /\ UNCHANGED notWs

\* The for statement's next() on the set iterator (line 60): CPython raises
\* RuntimeError when the set's size differs from the size at iter(); otherwise
\* it yields an entry not passed yet, or is exhausted.
SizeChanged(used, conns) == Cardinality(conns) # used

\* the loop without the clean-up of lines 67-68
NoCleanup(failed, seen) ==
    IF SizeChanged(it_used, active_connections)
    THEN /\ bpc' = "raised"
         /\ cur' = 0
         /\ UNCHANGED active_connections
    ELSE IF active_connections \ seen # {}
    THEN /\ \E c \in active_connections \ seen : cur' = c
         /\ bpc' = "sending"
         /\ UNCHANGED active_connections
    ELSE /\ UNCHANGED active_connections
         /\ cur' = 0
         /\ bpc' = "done"

IteratorNext(failed, seen) ==
    IF SizeChanged(it_used, active_connections)
    THEN /\ bpc' = "raised"
         /\ cur' = 0
         /\ UNCHANGED active_connections
    ELSE IF active_connections \ seen # {}
    THEN /\ \E c \in active_connections \ seen : cur' = c
         /\ bpc' = "sending"
         /\ UNCHANGED active_connections
    ELSE \* lines 67-68: self.active_connections -= disconnected
         /\ active_connections' = active_connections \ failed
         /\ cur' = 0
         /\ bpc' = "done"

\* broadcast, lines 56-60: return at once when nobody is connected, else start
\* iterating and await the first send
BroadcastStart ==
    /\ bpc # "sending"
    /\ disconnected' = {}
    /\ delivered' = {}
    /\ visited' = {}
    /\ stayed' = active_connections
    /\ it_used' = Cardinality(active_connections)
    /\ IF active_connections = {}
       THEN /\ bpc' = "done"
            /\ cur' = 0
            /\ UNCHANGED active_connections
       ELSE /\ \E c \in active_connections : cur' = c
            /\ bpc' = "sending"
            /\ UNCHANGED active_connections
    /\ UNCHANGED notWs

\* lines 61-65: the awaited send_json returns or raises, then the loop goes on
SendReturns(ok) ==
    /\ bpc = "sending"
    /\ delivered' = IF ok THEN delivered \cup {cur} ELSE delivered
    /\ disconnected' = IF ok THEN disconnected ELSE disconnected \cup {cur}
    /\ visited' = visited \cup {cur}
    /\ IteratorNext(disconnected', visited')
    /\ UNCHANGED <<it_used, stayed>>
    /\ UNCHANGED notWs

NextWs ==
    \/ \E c \in Clients : Connect(c)
    \/ \E c \in Clients : Disconnect(c)
    \/ BroadcastStart
    \/ \E ok \in BOOLEAN : SendReturns(ok)

\* =================================================================== server
\* ------------------------------------------------------ identifiers, stored
\* The 16 bytes of identifier number v.
IdBytes(v) == [i \in 1..UUID_BYTES |-> (37 * i + 171 * v) % 256]

\* 32 hex digits written 8-4-4-4-12.
Hyphenate(h) ==
    SubSeq(h, 1, 8) \o <<DASH>> \o SubSeq(h, 9, 12) \o <<DASH>> \o
    SubSeq(h, 13, 16) \o <<DASH>> \o SubSeq(h, 17, 20) \o <<DASH>> \o
    SubSeq(h, 21, 32)

MixedCase(s) ==
    [i \in 1..Len(s) |-> IF i % 2 = 0 THEN UpperCode(s[i]) ELSE LowerCode(s[i])]

LetterCases == {"lower", "upper", "mixed"}

\* Identifier v written as text.
IdText(v, hyphens, case) ==
    LET h == HexLower(IdBytes(v))
        c == CASE case = "lower" -> h
               [] case = "upper" -> Upper(h)
               [] OTHER -> MixedCase(h)
    IN  IF hyphens THEN Hyphenate(c) ELSE c

TextForms == BOOLEAN \X LetterCases

\* How a row stores an identifier: BLOB(16), or TEXT in one of the forms.
StoredEncodings == {<<"blob">>} \cup {<<"text", f[1], f[2]>> : f \in TextForms}

StoredId(v, enc) ==
    IF enc[1] = "blob" THEN Blob(IdBytes(v)) ELSE Text(IdText(v, enc[2], enc[3]))

\* The identifier values of the stored state and of requests.
Ids == [P1 |-> 1, F1 |-> 2, T1 |-> 3, T2 |-> 4, Absent |-> 5, P2 |-> 6, F2 |-> 7,
        T3 |-> 8, T4 |-> 9, T5 |-> 10, P3 |-> 11, New |-> 20]

\* A request's path identifier: a value in any text form, or no identifier at all.
RequestIds(values) ==
    {IdText(v, f[1], f[2]) : v \in values, f \in TextForms} \cup {in_zz}

\* The 128-bit value a stored identifier or a request identifier denotes
\* (<<>> when it denotes none).
ValueOfText(s) ==
    LET r == FromHex(RemoveChar(s, DASH)) IN
    IF r.ok /\ Len(r.bytes) = UUID_BYTES THEN r.bytes ELSE <<>>

ValueOfStored(x) ==
    CASE x.t = "blob" -> IF Len(x.b) = UUID_BYTES THEN x.b ELSE <<>>
      [] x.t = "text" -> ValueOfText(x.b)
      [] OTHER -> <<>>

SameValue(x, id_str) ==
    ValueOfStored(x) # <<>> /\ ValueOfStored(x) = ValueOfText(id_str)

\* ------------------------------------------------------------------- tables
Integer(n) == [t |-> "int", b |-> <<n>>]

ProjectRow(id, name, status, created_at, modified_at) ==
    [id |-> id, name |-> name, status |-> status,
     created_at |-> created_at, modified_at |-> modified_at]

FeatureRow(id, project_id, name, status, created_at, modified_at) ==
    [id |-> id, project_id |-> project_id, name |-> name, status |-> status,
     created_at |-> created_at, modified_at |-> modified_at]

TaskRow(id, title, status, priority, complexity, feature_id, project_id, at) ==
    [id |-> id, title |-> title, status |-> status, priority |-> priority,
     complexity |-> complexity, feature_id |-> feature_id,
     project_id |-> project_id, created_at |-> at, modified_at |-> at]

\* cursor.execute("SELECT * FROM t WHERE id = ? OR LOWER(CAST(id AS TEXT)) ...")
\* .fetchone(): the first row the WHERE clause accepts (0 = None).
FirstRow(S) == IF S = {} THEN 0 ELSE CHOOSE i \in S : \A j \in S : i <= j

SelectById(rows, p) ==
    FirstRow({i \in DOMAIN rows : MatchesId(rows[i].id, p)})

\* get_task's SELECT, with its fourth alternative on HEX(id).
SelectTaskByIdOrHex(rows, p) ==
    FirstRow({i \in DOMAIN rows : MatchesIdOrHex(rows[i].id, p)})

\* the UPDATE without its WHERE clause
UpdateEveryTask(rows, id, set) ==
    [i \in DOMAIN rows |->
        [c \in DOMAIN rows[i] |-> IF c \in DOMAIN set THEN set[c] ELSE rows[i][c]]]

\* UPDATE tasks SET <set> WHERE id = ?  (set: column -> new value)
UpdateTasks(rows, id, set) ==
    [i \in DOMAIN rows |->
        IF SqlEq(rows[i].id, id)
        THEN [c \in DOMAIN rows[i] |-> IF c \in DOMAIN set THEN set[c] ELSE rows[i][c]]
        ELSE rows[i]]

\* ----------------------------------------------------------------- handlers
\* What a handler did: the HTTP status it answered with, the table tasks it
\* left, the statements and the broadcast it issued in order, and the row its
\* lookup found (0 = none).
Outcome(code, rows, trace, row) ==
    [code |-> code, tasks |-> rows, trace |-> trace, row |-> row]

HTTP_BAD_REQUEST == 400
HTTP_NOT_FOUND == 404
HTTP_SERVER_ERROR == 500
HTTP_UNAVAILABLE == 503

\* line 43
ENABLE_WEBSOCKET == TRUE

\* "if ENABLE_WEBSOCKET: await ws_manager.broadcast(...)", after the with block
Broadcast == IF ENABLE_WEBSOCKET THEN <<"BROADCAST">> ELSE <<>>

\* the broadcast moved into the with block, ahead of the commit
BroadcastBeforeCommit == <<"SELECT", "UPDATE", "BROADCAST", "COMMIT", "SELECT">>

\* The statements of a mutation handler's with block in the order it issues them.
UpdateStatements == <<"SELECT", "UPDATE", "COMMIT", "SELECT">>
InsertStatements == <<"INSERT", "COMMIT", "SELECT">>

\* What SQLite does to the request's write: nothing, or execute() of the
\* UPDATE / INSERT raises (database is locked), or commit() raises and the
\* transaction is rolled back (disk I/O error, disk full).
Faults == {"none", "write", "commit"}

\* The statements up to and including the one that raised.
UpTo(statements, last) ==
    LET w == CHOOSE i \in 1..Len(statements) :
                 /\ statements[i] \in last
                 /\ \A j \in 1..(i - 1) : statements[j] \notin last
    IN  SubSeq(statements, 1, w)

\* On a pool opened with mode=ro&immutable=1 SQLite raises OperationalError
\* (attempt to write a readonly database) when the write is executed.
WriteRaises(mode, fault) == mode = "ro" \/ fault = "write"

\* "task": TaskStatus(**task_dict) in the return statement.  dict_from_row
\* leaves a BLOB that is not 16 bytes long as bytes, and a str field of the
\* response model (id, feature_id, project_id) given bytes that are not UTF-8
\* raises a validation error.  (Of the byte strings stored here the ones that
\* decode are those of bytes below 128.)
Utf8Decodes(b) == \A i \in DOMAIN b : b[i] < 128

TaskStatusRaises(t) ==
    \E c \in {"id", "feature_id", "project_id"} :
        t[c].t = "blob" /\ Len(t[c].b) # UUID_BYTES /\ ~Utf8Decodes(t[c].b)

\* The with block and the broadcast shared by update_task_status,
\* update_task_priority, update_task_complexity and patch_task: existence
\* check, UPDATE by the found row's id, commit, re-select, broadcast, and the
\* construction of the response.
UpdateExistingTask(rows, mode, task_id, set, fault) ==
    LET p == IdParams(task_id)
        task_row == SelectById(rows, p)
    IN
    IF task_row = 0
    THEN Outcome(HTTP_NOT_FOUND, rows, <<"SELECT">>, 0)
    ELSE IF WriteRaises(mode, fault)
    THEN Outcome(HTTP_SERVER_ERROR, rows, UpTo(UpdateStatements, {"UPDATE"}), task_row)
    ELSE IF fault = "commit"
    THEN Outcome(HTTP_SERVER_ERROR, rows, UpTo(UpdateStatements, {"COMMIT"}), task_row)
    ELSE LET updated == UpdateTasks(rows, rows[task_row].id, set)
             updated_row == SelectById(updated, p)
         IN  IF updated_row = 0
             THEN Outcome(HTTP_SERVER_ERROR, updated, UpdateStatements, task_row)
             ELSE IF TaskStatusRaises(updated[updated_row])
             THEN Outcome(HTTP_SERVER_ERROR, updated, UpdateStatements \o Broadcast, task_row)
             ELSE Outcome(200, updated, UpdateStatements \o Broadcast, task_row)

Unavailable(rows) == Outcome(HTTP_UNAVAILABLE, rows, <<>>, 0)
BadRequest(rows) == Outcome(HTTP_BAD_REQUEST, rows, <<>>, 0)

\* update_task_status with the status check moved behind the with block
ValidateAfterWrite(rows, mode, task_id, status, now, fault) ==
    LET out == UpdateExistingTask(rows, mode, task_id,
                    [c \in {"status", "modified_at"} |->
                        IF c = "status" THEN Text(db_status(status)) ELSE now],
                    fault)
    IN  IF mode = "none" THEN Unavailable(rows)
        ELSE IF normalized_status(status) \notin valid_statuses
        THEN Outcome(HTTP_BAD_REQUEST, out.tasks, out.trace, out.row)
        ELSE out

update_task_status(rows, mode, task_id, status, now, fault) ==
    IF mode = "none" THEN Unavailable(rows)
    ELSE IF normalized_status(status) \notin valid_statuses THEN BadRequest(rows)
    ELSE UpdateExistingTask(rows, mode, task_id,
            [c \in {"status", "modified_at"} |->
                IF c = "status" THEN Text(db_status(status)) ELSE now],
            fault)

update_task_priority(rows, mode, task_id, priority, now, fault) ==
    IF mode = "none" THEN Unavailable(rows)
    ELSE IF normalized_priority(priority) \notin valid_priorities THEN BadRequest(rows)
    ELSE UpdateExistingTask(rows, mode, task_id,
            [c \in {"priority", "modified_at"} |->
                IF c = "priority" THEN Text(db_priority(priority)) ELSE now],
            fault)

update_task_complexity(rows, mode, task_id, complexity, now, fault) ==
    IF mode = "none" THEN Unavailable(rows)
    ELSE IF ~valid_complexity(complexity) THEN BadRequest(rows)
    ELSE UpdateExistingTask(rows, mode, task_id,
            [c \in {"complexity", "modified_at"} |->
                IF c = "complexity" THEN Integer(complexity) ELSE now],
            fault)

\* TaskPartialUpdate: every field is None (NULL) unless the body supplies it.
PatchColumns == {"title", "status", "priority", "complexity", "feature_id", "project_id"}

\* bytes.fromhex(x.replace('-', '')) of a feature_id / project_id in a body
RefFromHex(s) == FromHex(RemoveChar(s, DASH))

\* lines 1112-1164: the checks that raise 400 for a supplied field
PatchFieldInvalid(c, v) ==
    CASE c = "status" -> normalized_status(v.b) \notin valid_statuses
      [] c = "priority" -> normalized_priority(v.b) \notin valid_priorities
      [] c = "complexity" -> ~valid_complexity(v.b[1])
      [] c \in {"feature_id", "project_id"} -> v.b # <<>> /\ ~RefFromHex(v.b).ok
      [] OTHER -> FALSE

\* lines 1104-1164: the value appended to update_values for a supplied field
PatchFieldValue(c, v) ==
    CASE c = "status" -> Text(db_status(v.b))
      [] c = "priority" -> Text(db_priority(v.b))
      [] c \in {"feature_id", "project_id"} ->
            IF v.b = <<>> THEN NULL ELSE Blob(RefFromHex(v.b).bytes)
      [] OTHER -> v

patch_task(rows, mode, task_id, update, now, fault) ==
    LET update_fields == {c \in PatchColumns : ~IsNull(update[c])} IN
    IF mode = "none" THEN Unavailable(rows)
    ELSE IF \E c \in update_fields : PatchFieldInvalid(c, update[c]) THEN BadRequest(rows)
    ELSE IF update_fields = {} THEN BadRequest(rows)
    ELSE UpdateExistingTask(rows, mode, task_id,
            [c \in update_fields \cup {"modified_at"} |->
                IF c = "modified_at" THEN now ELSE PatchFieldValue(c, update[c])],
            fault)

\* uuid.uuid4(): an identifier no row has.
uuid4(rows) == IdBytes(Ids.New + Len(rows))

\* lines 1271-1284: feature_id / project_id of TaskCreate ("if task.feature_id:")
CreateRef(v) == IF IsNull(v) \/ v.b = <<>> THEN NULL ELSE Blob(RefFromHex(v.b).bytes)

create_task(rows, mode, task, now, fault) ==
    IF mode = "none" THEN Unavailable(rows)
    ELSE IF \E c \in {"status", "priority", "complexity", "feature_id", "project_id"} :
                ~IsNull(task[c]) /\ PatchFieldInvalid(c, task[c])
    THEN BadRequest(rows)
    ELSE IF WriteRaises(mode, fault)
    THEN Outcome(HTTP_SERVER_ERROR, rows, UpTo(InsertStatements, {"INSERT"}), 0)
    ELSE IF fault = "commit"
    THEN Outcome(HTTP_SERVER_ERROR, rows, UpTo(InsertStatements, {"COMMIT"}), 0)
    ELSE LET task_id_bytes == Blob(uuid4(rows))
             created_rows == Append(rows,
                TaskRow(task_id_bytes, task.title, Text(db_status(task.status.b)),
                        Text(db_priority(task.priority.b)), task.complexity,
                        CreateRef(task.feature_id), CreateRef(task.project_id), now))
             created_row == FirstRow({i \in DOMAIN created_rows :
                                        SqlEq(created_rows[i].id, task_id_bytes)})
         IN  IF created_row = 0
             THEN Outcome(HTTP_SERVER_ERROR, created_rows, InsertStatements, 0)
             ELSE IF TaskStatusRaises(created_rows[created_row])
             THEN Outcome(HTTP_SERVER_ERROR, created_rows, InsertStatements \o Broadcast,
                          created_row)
             ELSE Outcome(200, created_rows, InsertStatements \o Broadcast, created_row)

\* GET /api/tasks/{task_id}, /api/features/{feature_id}, /api/projects/{project_id}:
\* the lookup of the row and the 404.
LookupOutcome(rows, mode, row) ==
    IF mode = "none" THEN Unavailable(rows)
    ELSE IF row = 0 THEN Outcome(HTTP_NOT_FOUND, rows, <<"SELECT">>, 0)
    ELSE Outcome(200, rows, <<"SELECT">>, row)

\* response_model=TaskStatus: the returned dict is validated the same way
get_task(rows, mode, task_id) ==
    LET row == SelectTaskByIdOrHex(rows, IdParams(task_id)) IN
    IF mode # "none" /\ row # 0 /\ TaskStatusRaises(rows[row])
    THEN Outcome(HTTP_SERVER_ERROR, rows, <<"SELECT">>, row)
    ELSE LookupOutcome(rows, mode, row)


\* ------------------------------------------------------------------ queries
\* ORDER BY: the elements of S as a sequence, a ahead of b when Before(a, b)
\* (a total order on S).
OrderBy(S, Before(_, _)) ==
    [n \in 1..Cardinality(S) |->
        CHOOSE a \in S : Cardinality({b \in S : Before(b, a)}) = n - 1]

\* LIMIT n
Limit(seq, n) == SubSeq(seq, 1, IF Len(seq) < n THEN Len(seq) ELSE n)

\* t LEFT JOIN rows r ON x = r.id: the rows with that id, or the all-NULL row 0
LeftJoin(rows, x) ==
    LET on == {j \in DOMAIN rows : SqlEq(x, rows[j].id)} IN
    IF on = {} THEN {0} ELSE on

\* a column of the joined row j
Column(rows, j, c) == IF j = 0 THEN NULL ELSE rows[j][c]

\* a timestamp column as a number of days
Day(x) == x.b[1]

\* get_tasks. q: the query parameters feature_id, status, priority (NULL when
\* not given) and limit.
\* FROM tasks t LEFT JOIN features f ON t.feature_id = f.id
\*              LEFT JOIN projects p ON COALESCE(t.project_id, f.project_id) = p.id
TasksJoined(project_rows, feature_rows, rows) ==
    {<<i, j, k>> \in (DOMAIN rows) \X (0..Len(feature_rows)) \X (0..Len(project_rows)) :
        /\ j \in LeftJoin(feature_rows, rows[i].feature_id)
        /\ k \in LeftJoin(project_rows,
                Coalesce(rows[i].project_id, Column(feature_rows, j, "project_id")))}

\* "if feature_id:" / "if status:" / "if priority:"
Given(x) == ~IsNull(x) /\ x.b # <<>>

TasksWhere(rows, i, q) ==
    /\ Given(q.feature_id) => MatchesId(rows[i].feature_id, IdParams(q.feature_id.b))
    /\ Given(q.status) => SqlEq(rows[i].status, q.status)
    /\ Given(q.priority) => SqlEq(rows[i].priority, q.priority)

\* _task_from_row on the status column ("if not raw_status: return raw_status")
NormalizedStatus(x) == IF IsNull(x) THEN NULL ELSE Text(_normalize_status(x.b))

\* One element of the answer: _task_from_row, then project_id replaced by
\* computed_project_id (lines 770-780).  row: the rowid it was made from.
TaskListed(project_rows, feature_rows, rows, r) ==
    [row |-> r[1],
     id |-> RenderValue(rows[r[1]].id),
     status |-> NormalizedStatus(rows[r[1]].status),
     feature_id |-> RenderValue(rows[r[1]].feature_id),
     project_id |-> RenderValue(Coalesce(rows[r[1]].project_id,
                                         Column(feature_rows, r[2], "project_id"))),
     project_name |-> Column(project_rows, r[3], "name"),
     feature_name |-> Column(feature_rows, r[2], "name")]

NoStats ==
    [feature_count |-> 0, task_count |-> 0, completed_count |-> 0,
     total_task_count |-> 0, total_completed_count |-> 0,
     task_completion_percentage |-> 0, complexity_completion_percentage |-> 0,
     feature_completion_percentage |-> 0]

NoQuery == [feature_id |-> NULL, status |-> NULL, priority |-> NULL, limit |-> 0]

\* The answer's body: the query parameters it was asked with and what it lists.
NoBody ==
    [query |-> NoQuery, days |-> NULL, projects |-> <<>>, features |-> <<>>,
     tasks |-> <<>>, stats |-> NoStats]

Answered(code, trace, row, body) ==
    [code |-> code, trace |-> trace, row |-> row, body |-> body]

get_tasks(project_rows, feature_rows, rows, mode, q) ==
    IF mode = "none" THEN Answered(HTTP_UNAVAILABLE, <<>>, 0, NoBody)
    ELSE LET selected == {r \in TasksJoined(project_rows, feature_rows, rows) :
                            TasksWhere(rows, r[1], q)}
             \* ORDER BY t.created_at DESC
             Before(a, b) ==
                \/ Day(rows[a[1]].created_at) > Day(rows[b[1]].created_at)
                \/ /\ Day(rows[a[1]].created_at) = Day(rows[b[1]].created_at)
                   /\ \/ a[1] < b[1]
                      \/ a[1] = b[1] /\ a[2] < b[2]
                      \/ a[1] = b[1] /\ a[2] = b[2] /\ a[3] < b[3]
             tasks_rows == Limit(OrderBy(selected, Before), q.limit)
         IN  Answered(200, <<"SELECT">>, 0,
                [NoBody EXCEPT
                    !.query = q,
                    !.tasks =
                        [n \in DOMAIN tasks_rows |->
                            TaskListed(project_rows, feature_rows, rows, tasks_rows[n])]])

\* round(x / y * 100) for y > 0: Python rounds a half to the even integer
\* (for the totals of the files below, under 40, the float product x / y * 100
\* of a ratio that ends in a half is that half exactly)
RoundPercent(x, y) ==
    LET q == (100 * x) \div y
        r == (100 * x) % y
    IN  IF 2 * r > y \/ (2 * r = y /\ q % 2 = 1) THEN q + 1 ELSE q

\* the percentage cut off instead of rounded
TruncPercent(x, y) == IF y > 0 THEN (100 * x) \div y ELSE 0

\* the ratio taken the wrong way round
InversePercent(x, y) == IF x > 0 THEN RoundPercent(y, x) ELSE 0

Percentage(x, y) == IF y > 0 THEN RoundPercent(x, y) ELSE 0

\* ... AND UPPER(t.status) = 'COMPLETED'
StoredCompleted(x) == SqlEq(SqlUpper(x), Text(DB_COMPLETED))

\* the join with a task that has no feature row counted under every project
JoinedOrNoFeature(feature_rows, rows, p_id) ==
    {<<i, j>> \in (DOMAIN rows) \X (0..Len(feature_rows)) :
        /\ j \in LeftJoin(feature_rows, rows[i].feature_id)
        /\ \/ SqlEq(rows[i].project_id, p_id)
           \/ SqlEq(Column(feature_rows, j, "project_id"), p_id)
           \/ j = 0 /\ IsNull(rows[i].project_id)}

\* get_project, lines 1606-1637: the features of the project, found by the
\* three-form WHERE on project_id, each with the tasks whose feature_id
\* equals the feature's rendered id (feature_dict["id"], a str).
ProjectFeatures(feature_rows, rows, p) ==
    LET selected == {j \in DOMAIN feature_rows : MatchesId(feature_rows[j].project_id, p)}
        \* ORDER BY created_at DESC
        Before(a, b) ==
            \/ Day(feature_rows[a].created_at) > Day(feature_rows[b].created_at)
            \/ Day(feature_rows[a].created_at) = Day(feature_rows[b].created_at) /\ a < b
        features_rows == OrderBy(selected, Before)
        TasksOf(j) ==
            LET feature_id == RenderValue(feature_rows[j].id)
                of_feature == {i \in DOMAIN rows : SqlEq(rows[i].feature_id, feature_id)}
                Newer(a, b) ==
                    \/ Day(rows[a].created_at) > Day(rows[b].created_at)
                    \/ Day(rows[a].created_at) = Day(rows[b].created_at) /\ a < b
                tasks_rows == OrderBy(of_feature, Newer)
            IN  [n \in DOMAIN tasks_rows |->
                    [row |-> tasks_rows[n],
                     id |-> RenderValue(rows[tasks_rows[n]].id),
                     status |-> NormalizedStatus(rows[tasks_rows[n]].status)]]
    IN  [n \in DOMAIN features_rows |->
            [row |-> features_rows[n],
             id |-> RenderValue(feature_rows[features_rows[n]].id),
             name |-> feature_rows[features_rows[n]].name,
             tasks |-> TasksOf(features_rows[n])]]

\* get_feature's task list: the three-form match on tasks.feature_id,
\* ORDER BY created_at DESC
FeatureTasks(rows, f) ==
    LET of_feature == {i \in DOMAIN rows : MatchesId(rows[i].feature_id, f)}
        Newer(a, b) ==
            \/ Day(rows[a].created_at) > Day(rows[b].created_at)
            \/ Day(rows[a].created_at) = Day(rows[b].created_at) /\ a < b
        tasks_rows == OrderBy(of_feature, Newer)
    IN  [n \in DOMAIN tasks_rows |->
            [row |-> tasks_rows[n],
             id |-> RenderValue(rows[tasks_rows[n]].id),
             status |-> NormalizedStatus(rows[tasks_rows[n]].status)]]

get_feature(feature_rows, rows, mode, feature_id) ==
    LET f == IdParams(feature_id)
        feature_row == SelectById(feature_rows, f)
    IN
    IF mode = "none" THEN Answered(HTTP_UNAVAILABLE, <<>>, 0, NoBody)
    ELSE IF feature_row = 0 THEN Answered(HTTP_NOT_FOUND, <<"SELECT">>, 0, NoBody)
    ELSE Answered(200, <<"SELECT">>, feature_row,
            [NoBody EXCEPT !.tasks = FeatureTasks(rows, f)])

get_project(project_rows, feature_rows, rows, mode, project_id) ==
    LET p == IdParams(project_id)
        project_row == SelectById(project_rows, p)
    IN
    IF mode = "none" THEN Answered(HTTP_UNAVAILABLE, <<>>, 0, NoBody)
    ELSE IF project_row = 0 THEN Answered(HTTP_NOT_FOUND, <<"SELECT">>, 0, NoBody)
    ELSE Answered(200, <<"SELECT">>, project_row,
            [NoBody EXCEPT !.features = ProjectFeatures(feature_rows, rows, p)])

\* FROM tasks t LEFT JOIN features f2 ON t.feature_id = f2.id
\* WHERE t.project_id = p.id OR f2.project_id = p.id
SummaryTasksJoined(feature_rows, rows, p_id) ==
    {<<i, j>> \in (DOMAIN rows) \X (0..Len(feature_rows)) :
        /\ j \in LeftJoin(feature_rows, rows[i].feature_id)
        /\ \/ SqlEq(rows[i].project_id, p_id)
           \/ SqlEq(Column(feature_rows, j, "project_id"), p_id)}

\* COUNT(DISTINCT t.id) over the joined rows S
CountDistinctId(rows, S) == Cardinality({rows[r[1]].id : r \in {x \in S : ~IsNull(rows[x[1]].id)}})

\* SUM(t.complexity) ... AND t.complexity IS NOT NULL, then "or 0"
RECURSIVE SumNotNull(_, _)
SumNotNull(rows, S) ==
    IF S = {} THEN 0
    ELSE LET r == CHOOSE x \in S : TRUE
             c == rows[r[1]].complexity
         IN  (IF IsNull(c) THEN 0 ELSE c.b[1]) + SumNotNull(rows, S \ {r})

\* get_projects_summary: one entry per project (GROUP BY p.id), newest first.
get_projects_summary(project_rows, feature_rows, rows, mode) ==
    LET \* ORDER BY p.modified_at DESC, p.created_at DESC
        Before(a, b) ==
            \/ Day(project_rows[a].modified_at) > Day(project_rows[b].modified_at)
            \/ /\ Day(project_rows[a].modified_at) = Day(project_rows[b].modified_at)
               /\ \/ Day(project_rows[a].created_at) > Day(project_rows[b].created_at)
                  \/ /\ Day(project_rows[a].created_at) = Day(project_rows[b].created_at)
                     /\ a < b
        projects_rows == OrderBy(DOMAIN project_rows, Before)
        Entry(k) ==
            LET p_id == project_rows[k].id
                \* LEFT JOIN features f ON f.project_id = p.id
                of_project == {j \in DOMAIN feature_rows :
                                  SqlEq(feature_rows[j].project_id, p_id)}
                joined == SummaryTasksJoined(feature_rows, rows, p_id)
                completed == {r \in joined : StoredCompleted(rows[r[1]].status)}
                feature_count == Cardinality({feature_rows[j].id : j \in of_project})
                task_count == CountDistinctId(rows, joined)
                completed_task_count == CountDistinctId(rows, completed)
                total_complexity == SumNotNull(rows, joined)
                completed_complexity == SumNotNull(rows, completed)
                completed_feature_count ==
                    Cardinality({feature_rows[j].id :
                        j \in {x \in of_project : StoredCompleted(feature_rows[x].status)}})
            IN  [row |-> k,
                 id |-> RenderValue(p_id),
                 name |-> project_rows[k].name,
                 feature_count |-> feature_count,
                 task_count |-> task_count,
                 completed_task_count |-> completed_task_count,
                 completed_feature_count |-> completed_feature_count,
                 task_completion_percentage |->
                    Percentage(completed_task_count, task_count),
                 complexity_completion_percentage |->
                    Percentage(completed_complexity, total_complexity),
                 feature_completion_percentage |->
                    Percentage(completed_feature_count, feature_count),
                 total_complexity |-> total_complexity,
                 completed_complexity |-> completed_complexity]
    IN
    IF mode = "none" THEN Answered(HTTP_UNAVAILABLE, <<>>, 0, NoBody)
    ELSE Answered(200, <<"SELECT">>, 0,
            [NoBody EXCEPT !.projects = [n \in DOMAIN projects_rows |-> Entry(projects_rows[n])]])

\* line 1461
OVERVIEW_LIMIT == 50

\* SUM(t.complexity) over the joined rows S (NULL adds nothing), COALESCE(.., 0)
RECURSIVE SumComplexity(_, _)
SumComplexity(rows, S) ==
    IF S = {} THEN 0
    ELSE LET r == CHOOSE x \in S : TRUE
             c == rows[r[1]].complexity
         IN  (IF IsNull(c) THEN 0 ELSE c.b[1]) + SumComplexity(rows, S \ {r})

\* FROM tasks t LEFT JOIN features f ON t.feature_id = f.id
\* WHERE t.project_id = ? OR f.project_id = ?
OverviewTasksJoined(feature_rows, rows, project_id_bytes) ==
    {<<i, j>> \in (DOMAIN rows) \X (0..Len(feature_rows)) :
        /\ j \in LeftJoin(feature_rows, rows[i].feature_id)
        /\ \/ SqlEq(rows[i].project_id, project_id_bytes)
           \/ SqlEq(Column(feature_rows, j, "project_id"), project_id_bytes)}

\* lines 1418-1441: the features of the project with their task counts
\* (one group per feature row: id is the table's key)
OverviewFeatures(feature_rows, rows, project_id_bytes) ==
    LET selected == {j \in DOMAIN feature_rows :
                        SqlEq(feature_rows[j].project_id, project_id_bytes)}
        \* ORDER BY f.modified_at DESC, f.created_at DESC
        Before(a, b) ==
            \/ Day(feature_rows[a].modified_at) > Day(feature_rows[b].modified_at)
            \/ /\ Day(feature_rows[a].modified_at) = Day(feature_rows[b].modified_at)
               /\ \/ Day(feature_rows[a].created_at) > Day(feature_rows[b].created_at)
                  \/ /\ Day(feature_rows[a].created_at) = Day(feature_rows[b].created_at)
                     /\ a < b
        features_rows == OrderBy(selected, Before)
        Joined(j) == {i \in DOMAIN rows : SqlEq(rows[i].feature_id, feature_rows[j].id)}
    IN  [n \in DOMAIN features_rows |->
            LET j == features_rows[n] IN
            [row |-> j,
             id |-> RenderValue(feature_rows[j].id),
             name |-> feature_rows[j].name,
             status |-> feature_rows[j].status,
             task_count |-> Cardinality({rows[i].id : i \in Joined(j)}),
             completed_count |->
                Cardinality({i \in Joined(j) : SqlEq(rows[i].status, Text(DB_COMPLETED))}),
             in_progress_count |->
                Cardinality({i \in Joined(j) : SqlEq(rows[i].status, Text(DB_IN_PROGRESS))})]]

\* lines 1443-1475: the recent tasks of the project
OverviewTasks(feature_rows, rows, project_id_bytes, days, today) ==
    LET of_project == {j \in DOMAIN feature_rows :
                          SqlEq(feature_rows[j].project_id, project_id_bytes)}
        selected ==
            {r \in {<<i, j>> \in (DOMAIN rows) \X (0..Len(feature_rows)) :
                        j \in LeftJoin(feature_rows, rows[i].feature_id)} :
                /\ \/ SqlEq(rows[r[1]].project_id, project_id_bytes)
                   \/ \E j \in of_project :
                        SqlEq(rows[r[1]].feature_id, feature_rows[j].id)
                \* datetime(t.modified_at) >= datetime('now', '-{days} days')
                /\ ~IsNull(days) => Day(rows[r[1]].modified_at) >= today - days.b[1]}
        \* ORDER BY t.modified_at DESC, t.created_at DESC
        Before(a, b) ==
            \/ Day(rows[a[1]].modified_at) > Day(rows[b[1]].modified_at)
            \/ /\ Day(rows[a[1]].modified_at) = Day(rows[b[1]].modified_at)
               /\ \/ Day(rows[a[1]].created_at) > Day(rows[b[1]].created_at)
                  \/ /\ Day(rows[a[1]].created_at) = Day(rows[b[1]].created_at)
                     /\ (a[1] < b[1] \/ (a[1] = b[1] /\ a[2] < b[2]))
        tasks_rows == Limit(OrderBy(selected, Before), OVERVIEW_LIMIT)
    IN  [n \in DOMAIN tasks_rows |->
            LET r == tasks_rows[n] IN
            [row |-> r[1],
             id |-> RenderValue(rows[r[1]].id),
             status |-> NormalizedStatus(rows[r[1]].status),
             feature_name |-> Column(feature_rows, r[2], "name"),
             modified_at |-> rows[r[1]].modified_at]]

\* get_project_overview with its totals and percentages taken from the tasks
\* that passed the days filter
TotalsOfRecentTasks(project_rows, feature_rows, rows, mode, project_id, days, today) ==
    LET p == IdParams(project_id)
        project_row == SelectById(project_rows, p)
        features_listed == OverviewFeatures(feature_rows, rows, p.bytes)
        tasks_listed == OverviewTasks(feature_rows, rows, p.bytes, days, today)
        recent == {<<tasks_listed[n].row, 0>> : n \in DOMAIN tasks_listed}
        completed == {r \in recent : StoredCompleted(rows[r[1]].status)}
        done == {n \in DOMAIN features_listed : StoredCompleted(features_listed[n].status)}
    IN
    IF mode = "none" THEN Answered(HTTP_UNAVAILABLE, <<>>, 0, NoBody)
    ELSE IF project_row = 0 THEN Answered(HTTP_NOT_FOUND, <<"SELECT">>, 0, NoBody)
    ELSE Answered(200, <<"SELECT">>, project_row,
            [query |-> NoQuery,
             days |-> days,
             projects |-> <<>>,
             features |-> features_listed,
             tasks |-> tasks_listed,
             stats |->
                [feature_count |-> Len(features_listed),
                 task_count |-> Len(tasks_listed),
                 completed_count |->
                    Cardinality({n \in DOMAIN tasks_listed :
                                    tasks_listed[n].status = Text(ui_completed)}),
                 total_task_count |-> Cardinality(recent),
                 total_completed_count |-> Cardinality(completed),
                 task_completion_percentage |->
                    Percentage(Cardinality(completed), Cardinality(recent)),
                 complexity_completion_percentage |->
                    Percentage(SumComplexity(rows, completed), SumComplexity(rows, recent)),
                 feature_completion_percentage |->
                    Percentage(Cardinality(done), Len(features_listed))]])

\* get_project_overview.  The dependencies and sections tables are not part
\* of the stored state here, and their two counts not part of the answer.
get_project_overview(project_rows, feature_rows, rows, mode, project_id, days, today) ==
    LET p == IdParams(project_id)
        project_row == SelectById(project_rows, p)
        \* line 1415
        project_id_bytes == p.bytes
        features_listed == OverviewFeatures(feature_rows, rows, project_id_bytes)
        tasks_listed == OverviewTasks(feature_rows, rows, project_id_bytes, days, today)
        joined == OverviewTasksJoined(feature_rows, rows, project_id_bytes)
        completed == {r \in joined : StoredCompleted(rows[r[1]].status)}
        of_project == {j \in DOMAIN feature_rows :
                          SqlEq(feature_rows[j].project_id, project_id_bytes)}
        total_task_count == Cardinality(joined)
        total_completed_count == Cardinality(completed)
        total_complexity == SumComplexity(rows, joined)
        completed_complexity == SumComplexity(rows, completed)
        total_features == Cardinality(of_project)
        completed_features ==
            Cardinality({j \in of_project : StoredCompleted(feature_rows[j].status)})
    IN
    IF mode = "none" THEN Answered(HTTP_UNAVAILABLE, <<>>, 0, NoBody)
    ELSE IF project_row = 0 THEN Answered(HTTP_NOT_FOUND, <<"SELECT">>, 0, NoBody)
    ELSE Answered(200, <<"SELECT">>, project_row,
            [query |-> NoQuery,
             days |-> days,
             projects |-> <<>>,
             features |-> features_listed,
             tasks |-> tasks_listed,
             stats |->
                [feature_count |-> Len(features_listed),
                 task_count |-> Len(tasks_listed),
                 completed_count |->
                    Cardinality({n \in DOMAIN tasks_listed :
                                    tasks_listed[n].status = Text(ui_completed)}),
                 total_task_count |-> total_task_count,
                 total_completed_count |-> total_completed_count,
                 task_completion_percentage |->
                    Percentage(total_completed_count, total_task_count),
                 complexity_completion_percentage |->
                    Percentage(completed_complexity, total_complexity),
                 feature_completion_percentage |->
                    Percentage(completed_features, total_features)]])

\* ----------------------------------------------------------------- requests
MaxWrites == 2

StatusInputs == {in_COMPLETED, in_In_Progress, in_urgent}
PriorityInputs == {in_High, in_critical}
ComplexityInputs == {MIN_COMPLEXITY - 1, MIN_COMPLEXITY, MAX_COMPLEXITY + 1}

Body(title, status, priority, complexity, feature_id, project_id) ==
    [title |-> title, status |-> status, priority |-> priority,
     complexity |-> complexity, feature_id |-> feature_id, project_id |-> project_id]

NoFields == Body(NULL, NULL, NULL, NULL, NULL, NULL)

PatchInputs ==
    {NoFields,
     [NoFields EXCEPT !.title = Text(title_b)],
     [NoFields EXCEPT !.title = Text(title_b), !.status = Text(in_urgent)],
     [NoFields EXCEPT !.status = Text(in_In_Progress), !.complexity = Integer(MAX_COMPLEXITY)],
     [NoFields EXCEPT !.title = Text(title_b), !.feature_id = Text(in_zz)],
     [NoFields EXCEPT !.feature_id = Text(in_ab)],
     [NoFields EXCEPT !.feature_id = Text(<<>>),
                      !.project_id = Text(IdText(Ids.P1, TRUE, "upper"))]}

NewTask == Body(Text(title_b), Text(ui_pending), Text(pr_medium), Integer(MIN_COMPLEXITY), NULL, NULL)

CreateInputs ==
    {NewTask,
     [NewTask EXCEPT !.status = Text(in_urgent)],
     [NewTask EXCEPT !.feature_id = Text(IdText(Ids.F1, FALSE, "lower"))],
     [NewTask EXCEPT !.project_id = Text(in_zz)]}

TaskIds == RequestIds({Ids.T1, Ids.Absent})
FeatureIds == RequestIds({Ids.F1, Ids.Absent})
ProjectIds == RequestIds({Ids.P1, Ids.Absent})

Mutations == {"put_status", "put_priority", "put_complexity", "patch", "post"}
Lookups == {"get_task", "get_feature", "get_project"}

NoRequest ==
    [op |-> "none", code |-> 0, detail |-> "", id |-> <<>>, input |-> NoFields,
     named |-> {}, row |-> 0, trace |-> <<>>, body |-> NoBody]

\* datetime.now().isoformat() of the request being served
Now == Integer(clock + 1)

\* get_db_pool, lines 192-196: the detail of the HTTPException
NOT_INITIALIZED == "Database not initialized"

Detail(code) == IF code = HTTP_UNAVAILABLE THEN NOT_INITIALIZED ELSE ""

\* The request and its answer.  input: the request body; named: the columns
\* it supplies.
Response(op, id, input, out) ==
    [op |-> op, code |-> out.code, detail |-> Detail(out.code), id |-> id,
     input |-> input,
     named |-> {c \in PatchColumns : ~IsNull(input[c])},
     row |-> out.row, trace |-> out.trace, body |-> NoBody]

\* What the handler wrote is in the file; a write moves the clock.
Stored(out) ==
    /\ tasks' = out.tasks
    /\ clock' = IF out.tasks # tasks THEN clock + 1 ELSE clock
    /\ UNCHANGED <<projects, features, db_pool>>
    /\ UNCHANGED notApi

\* startup_event: db_pool = DatabasePool(db_path, read_only=is_docker_volume)
Startup(is_docker_volume) ==
    /\ db_pool = "none"
    /\ db_pool' = IF is_docker_volume THEN "ro" ELSE "rw"
    /\ UNCHANGED <<projects, features, tasks, clock, resp>>
    /\ UNCHANGED notApi

GetTask(task_id) ==
    LET out == get_task(tasks, db_pool, task_id) IN
    /\ resp = NoRequest
    /\ resp' = Response("get_task", task_id, NoFields, out)
    /\ Stored(out)


UpdateTaskStatus(task_id, status, fault) ==
    LET out == update_task_status(tasks, db_pool, task_id, status, Now, fault) IN
    /\ resp = NoRequest
    /\ clock < MaxWrites
    /\ resp' = Response("put_status", task_id,
                         [NoFields EXCEPT !.status = Text(status)], out)
    /\ Stored(out)

UpdateTaskPriority(task_id, priority, fault) ==
    LET out == update_task_priority(tasks, db_pool, task_id, priority, Now, fault) IN
    /\ resp = NoRequest
    /\ clock < MaxWrites
    /\ resp' = Response("put_priority", task_id,
                         [NoFields EXCEPT !.priority = Text(priority)], out)
    /\ Stored(out)

UpdateTaskComplexity(task_id, complexity, fault) ==
    LET out == update_task_complexity(tasks, db_pool, task_id, complexity, Now, fault) IN
    /\ resp = NoRequest
    /\ clock < MaxWrites
    /\ resp' = Response("put_complexity", task_id,
                         [NoFields EXCEPT !.complexity = Integer(complexity)], out)
    /\ Stored(out)

PatchTask(task_id, update, fault) ==
    LET out == patch_task(tasks, db_pool, task_id, update, Now, fault) IN
    /\ resp = NoRequest
    /\ clock < MaxWrites
    /\ resp' = Response("patch", task_id, update, out)
    /\ Stored(out)

CreateTask(task, fault) ==
    LET out == create_task(tasks, db_pool, task, Now, fault) IN
    /\ resp = NoRequest
    /\ clock < MaxWrites
    /\ resp' = Response("post", <<>>, task, out)
    /\ Stored(out)

\* The read-only endpoints leave the file and the clock alone.
Read(op, id, out) ==
    /\ resp' = [op |-> op, code |-> out.code, detail |-> Detail(out.code), id |-> id,
                input |-> NoFields, named |-> {}, row |-> out.row,
                trace |-> out.trace, body |-> out.body]
    /\ UNCHANGED <<projects, features, tasks, db_pool, clock>>
    /\ UNCHANGED notApi

DEFAULT_LIMIT == 1000

TasksQueries ==
    [feature_id : {NULL, Text(IdText(Ids.F1, TRUE, "lower")),
                   Text(IdText(Ids.F1, FALSE, "upper"))},
     status : {NULL, Text(DB_COMPLETED)},
     priority : {NULL, Text(DB_HIGH)},
     limit : {2, DEFAULT_LIMIT}]

OverviewIds ==
    RequestIds({Ids.P1}) \cup
    {IdText(Ids.P2, TRUE, "lower"), IdText(Ids.P3, TRUE, "lower"),
     IdText(Ids.Absent, TRUE, "lower")}

DaysInputs == {NULL, Integer(7), Integer(1)}

QueryTaskIds ==
    {IdText(Ids.T1, TRUE, "lower"), IdText(Ids.T4, FALSE, "upper"),
     IdText(Ids.T5, TRUE, "mixed")}

GetFeature(feature_id) ==
    /\ resp = NoRequest
    /\ Read("get_feature", feature_id,
            get_feature(features, tasks, db_pool, feature_id))

QueryFeatureIds ==
    {IdText(Ids.F1, TRUE, "lower"), IdText(Ids.F1, FALSE, "upper"),
     IdText(Ids.F2, TRUE, "lower")}

GetTasks(q) ==
    /\ resp = NoRequest
    /\ Read("get_tasks", <<>>, get_tasks(projects, features, tasks, db_pool, q))

\* str(e) of the HTTPException that health_check and refresh_database catch:
\* "503: Database not initialized" where the framework's exception class
\* defines __str__, the empty string where it does not.
ExceptionTexts == {"503: Database not initialized", ""}

\* health_check and refresh_database: everything is inside try / except
\* Exception, and the handler returns a dict from either branch, so the
\* answer is 200 whether get_db_pool raised or not.
Caught(op, error) ==
    [NoRequest EXCEPT !.op = op, !.code = 200, !.detail = error]

Served(op, trace) ==
    [NoRequest EXCEPT !.op = op, !.code = 200, !.trace = trace]

HealthCheck(error) ==
    /\ resp = NoRequest
    /\ resp' = IF db_pool = "none" THEN Caught("health", error)
                ELSE Served("health", <<"SELECT">>)
    /\ UNCHANGED <<projects, features, tasks, db_pool, clock>>
    /\ UNCHANGED notApi

RefreshDatabase(error) ==
    /\ resp = NoRequest
    /\ resp' = IF db_pool = "none" THEN Caught("refresh", error)
                ELSE Served("refresh", <<"CLOSE_ALL", "SELECT">>)
    /\ UNCHANGED <<projects, features, tasks, db_pool, clock>>
    /\ UNCHANGED notApi

GetProject(project_id) ==
    /\ resp = NoRequest
    /\ Read("get_project", project_id,
            get_project(projects, features, tasks, db_pool, project_id))

GetProjectsSummary ==
    /\ resp = NoRequest
    /\ Read("summary", <<>>, get_projects_summary(projects, features, tasks, db_pool))

GetProjectOverview(project_id, days) ==
    /\ resp = NoRequest
    /\ Read("overview", project_id,
            get_project_overview(projects, features, tasks, db_pool, project_id,
                                 days, clock))

\* The files the queries are asked on: project P1 with feature F1, project P2
\* with feature F2, project P3 with nothing, and five tasks: one under F1, one directly under P1, one
\* under F1 with P2 as its own project, one with no reference, one whose
\* feature does not exist.  ep .. etp: how P1's id, F1's id, F1's project
\* reference, the tasks' feature references and the tasks' project references
\* are stored.
QueryEncodings == {<<"blob">>, <<"text", TRUE, "lower">>, <<"text", FALSE, "upper">>}

QueryState(ep, ef, efp, etf, etp) ==
    /\ projects = <<ProjectRow(StoredId(Ids.P1, ep), Text(title_a), Text(DB_IN_PROGRESS),
                               Integer(1), Integer(4)),
                    ProjectRow(Blob(IdBytes(Ids.P2)), Text(title_b), Text(DB_PENDING),
                               Integer(2), Integer(3)),
                    ProjectRow(Blob(IdBytes(Ids.P3)), Text(title_b), Text(DB_PENDING),
                               Integer(3), Integer(3))>>
    /\ features = <<FeatureRow(StoredId(Ids.F1, ef), StoredId(Ids.P1, efp),
                               Text(title_a), Text(DB_IN_PROGRESS),
                               Integer(1), Integer(2)),
                    FeatureRow(Blob(IdBytes(Ids.F2)), Blob(IdBytes(Ids.P2)),
                               Text(title_b), Text(DB_COMPLETED),
                               Integer(2), Integer(3))>>
    /\ tasks = <<TaskRow(Blob(IdBytes(Ids.T1)), Text(title_a), Text(DB_COMPLETED),
                         Text(DB_HIGH), Integer(8), StoredId(Ids.F1, etf), NULL,
                         Integer(29)),
                 TaskRow(Blob(IdBytes(Ids.T2)), Text(title_a), Text(DB_PENDING),
                         Text(DB_MEDIUM), Integer(4), NULL, StoredId(Ids.P1, etp),
                         Integer(12)),
                 TaskRow(Blob(IdBytes(Ids.T3)), Text(title_a), Text(DB_DONE),
                         Text(DB_LOW), NULL, StoredId(Ids.F1, etf),
                         Blob(IdBytes(Ids.P2)), Integer(28)),
                 TaskRow(Blob(IdBytes(Ids.T4)), Text(title_b), Text(DB_COMPLETED),
                         Text(DB_HIGH), Integer(3), NULL, NULL, Integer(27)),
                 TaskRow(Blob(IdBytes(Ids.T5)), Text(title_b), Text(DB_IN_PROGRESS),
                         Text(DB_LOW), Integer(5), Blob(IdBytes(Ids.Absent)), NULL,
                         Integer(26))>>

\* A small file: project P1, its feature F1 that is not completed, a
\* completed task of complexity 8 attached to F1 only and a pending task of
\* complexity 2 attached to P1 directly; every id stored in one encoding.
ExampleState(enc) ==
    /\ projects = <<ProjectRow(StoredId(Ids.P1, enc), Text(title_a), Text(DB_IN_PROGRESS),
                               Integer(1), Integer(4))>>
    /\ features = <<FeatureRow(StoredId(Ids.F1, enc), StoredId(Ids.P1, enc),
                               Text(title_a), Text(DB_IN_PROGRESS),
                               Integer(1), Integer(2))>>
    /\ tasks = <<TaskRow(StoredId(Ids.T1, enc), Text(title_a), Text(DB_COMPLETED),
                         Text(DB_HIGH), Integer(8), StoredId(Ids.F1, enc), NULL,
                         Integer(29)),
                 TaskRow(StoredId(Ids.T2, enc), Text(title_b), Text(DB_PENDING),
                         Text(DB_MEDIUM), Integer(2), NULL, StoredId(Ids.P1, enc),
                         Integer(28))>>

QueryInit ==
    /\ \/ \E ep, ef, efp, etf, etp \in QueryEncodings : QueryState(ep, ef, efp, etf, etp)
       \/ \E enc \in QueryEncodings : ExampleState(enc)
    /\ db_pool = "rw"
    /\ clock = 30
    /\ resp = NoRequest

\* The client has read the answer; requests are served one after the other.
ReadResponse ==
    /\ resp # NoRequest
    /\ resp' = NoRequest
    /\ UNCHANGED <<projects, features, tasks, db_pool, clock>>
    /\ UNCHANGED notApi

\* The file the server is started on: one project, one feature of it, one
\* task of the feature whose ids are stored in one encoding, and a second
\* task stored as BLOB.
StoredState(enc) ==
    /\ projects = <<ProjectRow(StoredId(Ids.P1, enc), Text(title_a), Text(DB_IN_PROGRESS),
                               Integer(0), Integer(0))>>
    /\ features = <<FeatureRow(StoredId(Ids.F1, enc), StoredId(Ids.P1, enc),
                               Text(title_a), Text(DB_IN_PROGRESS),
                               Integer(0), Integer(0))>>
    /\ tasks = <<TaskRow(StoredId(Ids.T1, enc), Text(title_a), Text(DB_PENDING),
                         Text(DB_MEDIUM), Integer(MIN_COMPLEXITY),
                         StoredId(Ids.F1, enc), NULL, Integer(0)),
                 TaskRow(Blob(IdBytes(Ids.T2)), Text(title_a), Text(DB_COMPLETED),
                         Text(DB_LOW), Integer(MAX_COMPLEXITY),
                         NULL, StoredId(Ids.P1, enc), Integer(0))>>

ApiInit ==
    /\ \E enc \in StoredEncodings : StoredState(enc)
    /\ db_pool = "none"
    /\ clock = 0
    /\ resp = NoRequest

\* The server as the pool and the push channel models see it: started, idle.
ApiIdle ==
    /\ StoredState(<<"blob">>)
    /\ db_pool = "rw"
    /\ clock = 0
    /\ resp = NoRequest

Next ==
    \/ \E is_docker_volume \in BOOLEAN : Startup(is_docker_volume)
    \/ \E task_id \in TaskIds : GetTask(task_id)
    \/ \E feature_id \in FeatureIds : GetFeature(feature_id)
    \/ \E project_id \in ProjectIds : GetProject(project_id)
    \/ \E task_id \in TaskIds, status \in StatusInputs, fault \in Faults :
            UpdateTaskStatus(task_id, status, fault)
    \/ \E task_id \in TaskIds, priority \in PriorityInputs, fault \in Faults :
            UpdateTaskPriority(task_id, priority, fault)
    \/ \E task_id \in TaskIds, complexity \in ComplexityInputs, fault \in Faults :
            UpdateTaskComplexity(task_id, complexity, fault)
    \/ \E task_id \in TaskIds, update \in PatchInputs, fault \in Faults :
            PatchTask(task_id, update, fault)
    \/ \E task \in CreateInputs, fault \in Faults : CreateTask(task, fault)
    \/ GetProjectsSummary
    \/ \E project_id \in ProjectIds : GetProjectOverview(project_id, NULL)
    \/ \E error \in ExceptionTexts : HealthCheck(error)
    \/ \E error \in ExceptionTexts : RefreshDatabase(error)
    \/ ReadResponse

NextQuery ==
    \/ \E task_id \in QueryTaskIds : GetTask(task_id)
    \/ \E q \in TasksQueries : GetTasks(q)
    \/ \E feature_id \in QueryFeatureIds : GetFeature(feature_id)
    \/ \E project_id \in OverviewIds : GetProject(project_id)
    \/ GetProjectsSummary
    \/ \E project_id \in OverviewIds, days \in DaysInputs :
            GetProjectOverview(project_id, days)
    \/ ReadResponse

\* ------------------------------------------------------------ helper calls
\* The helpers are pure: a call is recorded with its argument and its result,
\* and a call whose argument is the result of the call before it extends the
\* chain (decode, render, decode again; map to storage, normalize).
MaxChain == 3

in_empty == <<>>   \* ""
in_abc == <<97, 98, 99>>   \* "abc"
in_ab_cd == <<97, 98, SPACE, 99, 100>>   \* "ab cd"
in_dashes == <<DASH, DASH>>   \* "--"

\* a 32-digit identifier with a blank after every fourth byte
Spaced(h) ==
    SubSeq(h, 1, 8) \o <<SPACE>> \o SubSeq(h, 9, 16) \o <<SPACE>> \o
    SubSeq(h, 17, 24) \o <<SPACE>> \o SubSeq(h, 25, 32)

IdInputs ==
    RequestIds({Ids.P1, Ids.F1, Ids.T1, Ids.T2, Ids.Absent, Ids.New})
    \cup {in_empty, in_ab, in_abc, in_ab_cd, in_dashes,
          Spaced(IdText(Ids.T1, FALSE, "lower")),
          IdText(Ids.T1, TRUE, "lower") \o <<48>>,
          IdText(Ids.T1, FALSE, "upper") \o <<48, 48>>,
          SubSeq(IdText(Ids.T1, FALSE, "lower"), 1, 30),
          Tail(IdText(Ids.T1, TRUE, "mixed"))}

StatusWords ==
    valid_statuses \cup
    {DB_PENDING, DB_IN_PROGRESS, DB_COMPLETED, DB_CANCELLED, DB_DEFERRED,
     DB_BLOCKED, DB_INPROGRESS, DB_DOING, DB_DONE, DB_TODO,
     in_In_Progress, in_urgent, in_empty}

\* the chain a call on x extends: the calls so far when x is the result of
\* the last of them, else none
Chain(x) ==
    IF call # <<>> /\ Len(call) < MaxChain /\ call[Len(call)].out = x
    THEN call ELSE <<>>

LastTexts == IF call # <<>> /\ call[Len(call)].out.t = "text"
             THEN {call[Len(call)].out.b} ELSE {}

Called(fn, arg, out, str) ==
    /\ call' = Append(Chain(arg), [fn |-> fn, arg |-> arg, out |-> out, str |-> str])
    /\ UNCHANGED notCall

\* _uuid_params(uuid_str)
CallUuidParams(uuid_str) ==
    Called("_uuid_params", Text(uuid_str),
           _uuid_params(uuid_str).bytes, _uuid_params(uuid_str).str)

\* dict_from_row on a row whose column holds the bytes the last call returned
CallDictFromRow ==
    /\ call # <<>>
    /\ call[Len(call)].out.t = "blob"
    /\ Called("dict_from_row", call[Len(call)].out,
              RenderValue(call[Len(call)].out), NULL)

\* update_task_status, lines 828-847: the value it stores for a status it
\* accepts, no value for a status it rejects with 400
StoredStatus(status) ==
    IF normalized_status(status) \in valid_statuses
    THEN Text(db_status(status)) ELSE NULL

CallStoredStatus(status) ==
    Called("update_task_status", Text(status), StoredStatus(status), NULL)

\* _normalize_status(raw_status)
CallNormalizeStatus(raw_status) ==
    Called("_normalize_status", Text(raw_status),
           Text(_normalize_status(raw_status)), NULL)

NextCodec ==
    \/ \E uuid_str \in IdInputs \cup LastTexts : CallUuidParams(uuid_str)
    \/ CallDictFromRow
    \/ \E status \in StatusWords \cup LastTexts : CallStoredStatus(status)
    \/ \E raw_status \in StatusWords \cup LastTexts : CallNormalizeStatus(raw_status)

\* ----------------------------------------------------------- specifications
NoCalls == <<>>

InitPool == PoolInit /\ WsInit /\ ApiIdle /\ call = NoCalls

SpecPool == InitPool /\ [][NextPool]_vars

InitWs == PoolInit /\ WsInit /\ ApiIdle /\ call = NoCalls

Init == PoolInit /\ WsInit /\ ApiInit /\ call = NoCalls

Spec == Init /\ [][Next]_vars

InitQuery == PoolInit /\ WsInit /\ QueryInit /\ call = NoCalls

SpecQuery == InitQuery /\ [][NextQuery]_vars

SpecWs == InitWs /\ [][NextWs]_vars

InitCodec == PoolInit /\ WsInit /\ ApiIdle /\ call = NoCalls

SpecCodec == InitCodec /\ [][NextCodec]_vars

\* ------------------------------------------------------------ server claims
TaskUpdates == {"put_status", "put_priority", "put_complexity", "patch"}

TableOf(op) ==
    CASE op = "get_feature" -> features
      [] op = "get_project" -> projects
      [] OTHER -> tasks

Denoted(rows, id_str) == {i \in DOMAIN rows : SameValue(rows[i].id, id_str)}

\* C1: a PUT status / priority / complexity or PATCH request answered with
\* 400 or 404 leaves every row of tasks, modified_at included, as it was.
C1_RejectedRequestLeavesRows ==
    [][(/\ resp' # resp
        /\ resp'.op \in TaskUpdates
        /\ resp'.code \in {HTTP_BAD_REQUEST, HTTP_NOT_FOUND}) => tasks' = tasks]_vars

\* a task that exists was sent a PATCH that failed validation, on a writable pool
C1_Witness ==
    /\ resp.op = "patch"
    /\ resp.code = HTTP_BAD_REQUEST
    /\ db_pool = "rw"
    /\ Denoted(tasks, resp.id) # {}

Positions(trace, word) == {i \in DOMAIN trace : trace[i] = word}

\* C2: a mutation request broadcasts only after its own commit succeeded: the
\* commit precedes the event in the trace and the write is in the file; a
\* request answered 400 / 404 or whose write or commit raised sends no event.
C2_BroadcastOnlyAfterCommit ==
    resp.op \in Mutations =>
        /\ \A i \in Positions(resp.trace, "BROADCAST") :
            /\ \E j \in Positions(resp.trace, "COMMIT") : j < i
            /\ resp.row # 0
            /\ tasks[resp.row].modified_at = Integer(clock)
        /\ resp.code \in {HTTP_BAD_REQUEST, HTTP_NOT_FOUND, HTTP_UNAVAILABLE} =>
                Positions(resp.trace, "BROADCAST") = {}
        /\ (resp.trace # <<>>
                /\ resp.trace[Len(resp.trace)] \in {"UPDATE", "INSERT", "COMMIT"}) =>
                /\ resp.code = HTTP_SERVER_ERROR
                /\ Positions(resp.trace, "BROADCAST") = {}

\* a request whose commit raised, after an earlier request was broadcast
C2_Witness ==
    /\ resp.op \in Mutations
    /\ resp.code = HTTP_SERVER_ERROR
    /\ Positions(resp.trace, "COMMIT") # {}
    /\ Positions(resp.trace, "BROADCAST") = {}
    /\ clock > 0

\* C3: on a pool opened read-only a mutation request returns an error and
\* issues no UPDATE and no INSERT.
C3_ReadOnlyFailsFast ==
    (db_pool = "ro" /\ resp.op \in Mutations) =>
        /\ resp.code # 200
        /\ Positions(resp.trace, "UPDATE") = {}
        /\ Positions(resp.trace, "INSERT") = {}

\* C9: a lookup by id (GET task / feature / project, the existence check of
\* PUT status / priority / complexity and PATCH) finds a row exactly when some
\* row's stored id denotes the 128-bit value of the requested id, and the row
\* it finds is such a row; otherwise the answer is 404.
C9_LookupFindsExactlySameValue ==
    (resp.op \in Lookups \cup TaskUpdates
        /\ resp.code \notin {HTTP_BAD_REQUEST, HTTP_UNAVAILABLE}) =>
        /\ resp.code = HTTP_NOT_FOUND <=> Denoted(TableOf(resp.op), resp.id) = {}
        /\ resp.code # HTTP_NOT_FOUND => resp.row \in Denoted(TableOf(resp.op), resp.id)

HasDash(s) == \E i \in DOMAIN s : s[i] = DASH

\* a row stored as unhyphenated text that is not lower case, found by a
\* hyphenated lower-case request
C9_Witness ==
    /\ resp.op \in TaskUpdates
    /\ resp.code = 200
    /\ tasks[resp.row].id.t = "text"
    /\ ~HasDash(tasks[resp.row].id.b)
    /\ tasks[resp.row].id.b # Lower(tasks[resp.row].id.b)
    /\ HasDash(resp.id)
    /\ resp.id = Lower(resp.id)


TaskColumns ==
    {"id", "title", "status", "priority", "complexity", "feature_id", "project_id",
     "created_at", "modified_at"}

CanonicalStatuses ==
    {DB_PENDING, DB_IN_PROGRESS, DB_COMPLETED, DB_CANCELLED, DB_DEFERRED, DB_BLOCKED}

CanonicalPriorities == {DB_HIGH, DB_MEDIUM, DB_LOW}

Canonical(c, x) ==
    CASE c = "status" -> x.t = "text" /\ x.b \in CanonicalStatuses
      [] c = "priority" -> x.t = "text" /\ x.b \in CanonicalPriorities
      [] c = "complexity" -> x.t = "int" /\ x.b[1] \in MIN_COMPLEXITY..MAX_COMPLEXITY
      [] OTHER -> TRUE

\* C19: whenever a mutation request changes the file, the status, priority
\* and complexity it names are stored in canonical form in its target row,
\* and so is every status, priority or complexity of any row that differs
\* from what the row held before (a created row: all three).
C19_WritesAreCanonical ==
    [][(resp' # resp /\ resp'.op \in Mutations /\ tasks' # tasks) =>
            /\ resp'.row \in DOMAIN tasks'
            /\ \A c \in resp'.named : Canonical(c, tasks'[resp'.row][c])
            /\ \A i \in DOMAIN tasks', c \in {"status", "priority", "complexity"} :
                    (i \notin DOMAIN tasks \/ tasks'[i][c] # tasks[i][c]) =>
                        Canonical(c, tasks'[i][c])]_vars

\* a PATCH that spelled the status "In_Progress" and gave the largest
\* complexity has been stored
C19_Witness ==
    /\ resp.op = "patch"
    /\ resp.code = 200
    /\ resp.named = {"status", "complexity"}
    /\ tasks[resp.row].status = Text(DB_IN_PROGRESS)
    /\ tasks[resp.row].complexity = Integer(MAX_COMPLEXITY)

\* A request body is invalid when it supplies a status outside the
\* vocabulary, a priority outside high / medium / low, a complexity outside
\* 1..10 or a feature or project reference that is not hexadecimal, or, for
\* PATCH, when it supplies nothing.
InvalidInput(input) ==
    \/ input = NoFields
    \/ /\ ~IsNull(input.status)
       /\ ReplaceChar(Lower(input.status.b), UNDERSCORE, DASH) \notin valid_statuses
    \/ ~IsNull(input.priority) /\ Lower(input.priority.b) \notin valid_priorities
    \/ /\ ~IsNull(input.complexity)
       /\ input.complexity.b[1] \notin MIN_COMPLEXITY..MAX_COMPLEXITY
    \/ \E c \in {"feature_id", "project_id"} :
            /\ ~IsNull(input[c])
            /\ input[c].b # <<>>
            /\ ~FromHex(RemoveChar(input[c].b, DASH)).ok

\* the statement that raised is the last of the trace
StorageRaised(trace) ==
    trace # <<>> /\ trace[Len(trace)] \in {"UPDATE", "INSERT", "COMMIT"}

\* C20: a PUT status / priority / complexity or PATCH request on a started
\* server is answered 400, with no statement issued, exactly when its body is
\* invalid, whether or not the task exists; otherwise 404, with only the
\* lookup issued, exactly when no task has the id; otherwise the write is
\* applied and 200 is returned, unless the storage raised on the write.
C20_ValidationThenLookupThenWrite ==
    (resp.op \in TaskUpdates /\ resp.code # HTTP_UNAVAILABLE) =>
        /\ resp.code = HTTP_BAD_REQUEST <=> InvalidInput(resp.input)
        /\ resp.code = HTTP_BAD_REQUEST => resp.trace = <<>>
        /\ ~InvalidInput(resp.input) =>
                /\ resp.code = HTTP_NOT_FOUND <=> Denoted(tasks, resp.id) = {}
                /\ resp.code = HTTP_NOT_FOUND => resp.trace = <<"SELECT">>
                /\ (Denoted(tasks, resp.id) # {} /\ ~StorageRaised(resp.trace)) =>
                        /\ resp.code = 200
                        /\ tasks[resp.row].modified_at = Integer(clock)

\* C21: every request answered while the pool is not initialised is
\* answered 503 with the detail "Database not initialized" and has issued no
\* statement.
C21_UninitialisedPoolIs503 ==
    (db_pool = "none" /\ resp.op # "none") =>
        /\ resp.code = HTTP_UNAVAILABLE
        /\ resp.detail = NOT_INITIALIZED
        /\ resp.trace = <<>>

\* ------------------------------------------------------------- query claims
SameStoredValue(x, y) == ValueOfStored(x) # <<>> /\ ValueOfStored(x) = ValueOfStored(y)

\* The features a task's feature reference denotes.
ReferencedFeatures(t) ==
    {j \in DOMAIN features : SameStoredValue(features[j].id, t.feature_id)}

\* The effective project of a task as a 128-bit value (<<>> = none): its own
\* project reference when present, else the project reference of the feature
\* it references, else none.
EffectiveProject(t) ==
    IF ~IsNull(t.project_id) THEN ValueOfStored(t.project_id)
    ELSE IF ReferencedFeatures(t) = {} THEN <<>>
    ELSE ValueOfStored(features[CHOOSE j \in ReferencedFeatures(t) : TRUE].project_id)

\* The features and the tasks of the project a request identifier denotes.
FeaturesOfProject(id_str) ==
    {j \in DOMAIN features : SameValue(features[j].project_id, id_str)}

TasksOfProject(id_str) ==
    {i \in DOMAIN tasks :
        \/ SameValue(tasks[i].project_id, id_str)
        \/ ReferencedFeatures(tasks[i]) \cap FeaturesOfProject(id_str) # {}}

ListedRows(list) == {list[n].row : n \in DOMAIN list}

\* C8: an answered overview includes every feature whose project reference
\* denotes the requested project and every task that references the project
\* or one of those features, in its lists (the task list when no days filter
\* is given) and in its counts, however the references and the project's id
\* are stored and whichever text form the request used.
C8_OverviewMatchesEveryEncoding ==
    (resp.op = "overview" /\ resp.code = 200) =>
        /\ FeaturesOfProject(resp.id) \subseteq ListedRows(resp.body.features)
        /\ resp.body.stats.feature_count >= Cardinality(FeaturesOfProject(resp.id))
        /\ resp.body.stats.total_task_count >= Cardinality(TasksOfProject(resp.id))
        /\ IsNull(resp.body.days) =>
                TasksOfProject(resp.id) \subseteq ListedRows(resp.body.tasks)

\* C10: every task of the listing is reported with its effective project.
C10_ListingReportsEffectiveProject ==
    (resp.op = "get_tasks" /\ resp.code = 200) =>
        \A n \in DOMAIN resp.body.tasks :
            ValueOfStored(resp.body.tasks[n].project_id) =
                EffectiveProject(tasks[resp.body.tasks[n].row])

\* C22: an answered GET /api/projects/{id} lists under each feature exactly
\* the tasks whose feature reference denotes that feature, and that is the
\* task set GET /api/features/{feature_id} answers for the listed feature id.
C22_ProjectListsFeatureTasks ==
    (resp.op = "get_project" /\ resp.code = 200) =>
        \A n \in DOMAIN resp.body.features :
            LET e == resp.body.features[n]
                fetched == get_feature(features, tasks, db_pool, e.id.b)
            IN  /\ ListedRows(e.tasks) =
                        {i \in DOMAIN tasks :
                            SameStoredValue(tasks[i].feature_id, features[e.row].id)}
                /\ fetched.code = 200
                /\ ListedRows(fetched.body.tasks) = ListedRows(e.tasks)

\* ------------------------------------------------------- aggregate claims
\* The tasks of the project with 128-bit value v: those whose own project
\* reference denotes v or whose feature reference denotes a feature whose
\* project reference denotes v.
TasksOfValue(v) ==
    {i \in DOMAIN tasks :
        \/ ValueOfStored(tasks[i].project_id) = v
        \/ \E j \in ReferencedFeatures(tasks[i]) : ValueOfStored(features[j].project_id) = v}

\* The project value a summary entry is about / an overview was asked for.
EntryValue(e) == ValueOfStored(projects[e.row].id)

SummaryAnswered == resp.op = "summary" /\ resp.code = 200
OverviewAnswered == resp.op = "overview" /\ resp.code = 200

\* A task with no project reference whose feature reference is absent or
\* denotes no stored feature.
Orphaned(t) == IsNull(t.project_id) /\ ReferencedFeatures(t) = {}

\* the file without its orphaned tasks
WithoutOrphaned == SelectSeq(tasks, LAMBDA t : ~Orphaned(t))

\* C11: orphaned tasks change no aggregate and no project-scoped listing: a
\* summary and an overview (features with their counts, totals, percentages)
\* are those of the same file without the orphaned tasks, no listed task is
\* orphaned (overview task list, tasks nested in GET project), an aggregate
\* request is answered (404 only for an unknown project), and a direct lookup
\* of an orphaned task returns it.
C11_OrphanedTasksExcluded ==
    /\ resp.op = "summary" =>
            /\ resp.code = 200
            /\ resp.body.projects =
                    get_projects_summary(projects, features, WithoutOrphaned, db_pool).body.projects
    /\ resp.op = "overview" =>
            /\ resp.code = 200 <=> Denoted(projects, resp.id) # {}
            /\ resp.code # 200 => resp.code = HTTP_NOT_FOUND
            /\ LET without == get_project_overview(projects, features, WithoutOrphaned,
                                    db_pool, resp.id, resp.body.days, clock).body
               IN  resp.code = 200 =>
                    /\ resp.body.stats = without.stats
                    /\ resp.body.features = without.features
                    /\ \A n \in DOMAIN resp.body.tasks :
                            ~Orphaned(tasks[resp.body.tasks[n].row])
    /\ resp.op = "get_project" =>
            /\ resp.code = 200 <=> Denoted(projects, resp.id) # {}
            /\ resp.code # 200 => resp.code = HTTP_NOT_FOUND
            /\ \A f \in DOMAIN resp.body.features :
                    \A n \in DOMAIN resp.body.features[f].tasks :
                        ~Orphaned(tasks[resp.body.features[f].tasks[n].row])
    /\ (resp.op = "get_task" /\ \E i \in Denoted(tasks, resp.id) : Orphaned(tasks[i])) =>
            /\ resp.code = 200
            /\ resp.row \in Denoted(tasks, resp.id)
            /\ Orphaned(tasks[resp.row])

\* a summary that counts tasks for some project, asked on a file that holds
\* an orphaned task with a dangling feature reference
C11_Witness ==
    /\ SummaryAnswered
    /\ \E i \in DOMAIN tasks : Orphaned(tasks[i]) /\ ~IsNull(tasks[i].feature_id)
    /\ \E n \in DOMAIN resp.body.projects : resp.body.projects[n].task_count > 1

\* C12: task_count of every summary entry and total_task_count of an overview
\* are the number of distinct tasks that reference the project directly or
\* reference a feature of the project (a task that does both counted once, a
\* task with no own project reference under a feature of the project counted).
C12_TaskCountIsResolvedSet ==
    /\ SummaryAnswered =>
            \A n \in DOMAIN resp.body.projects :
                resp.body.projects[n].task_count =
                    Cardinality(TasksOfValue(EntryValue(resp.body.projects[n])))
    /\ OverviewAnswered =>
            resp.body.stats.total_task_count =
                Cardinality(TasksOfValue(ValueOfText(resp.id)))

\* The tasks of the project with value v whose status normalizes to "completed".
CompletedOfValue(v) ==
    {i \in TasksOfValue(v) : NormalizedStatus(tasks[i].status) = Text(ui_completed)}

\* C13: completed_task_count of every summary entry and total_completed_count
\* of an overview are the number of tasks of the project's resolved task set
\* whose normalized status is "completed".
C13_CompletedCountIsNormalizedCompleted ==
    /\ SummaryAnswered =>
            \A n \in DOMAIN resp.body.projects :
                resp.body.projects[n].completed_task_count =
                    Cardinality(CompletedOfValue(EntryValue(resp.body.projects[n])))
    /\ OverviewAnswered =>
            resp.body.stats.total_completed_count =
                Cardinality(CompletedOfValue(ValueOfText(resp.id)))

\* p is an integer nearest to completed / total x 100, and 0 when total is 0.
NearestPercent(p, completed, total) ==
    IF total = 0 THEN p = 0
    ELSE LET d == 100 * completed - p * total IN
         /\ p \in 0..100
         /\ 2 * (IF d < 0 THEN -d ELSE d) <= total

\* C14: the task, complexity and feature completion percentages of every
\* summary entry and of an overview are each the integer nearest to
\* completed / total x 100 of the counts and sums they are computed from, and
\* 0 when the total is 0 (a project without features and tasks, a project in
\* which no task has a complexity).
C14_PercentagesRoundedZeroOnEmpty ==
    /\ SummaryAnswered =>
            \A n \in DOMAIN resp.body.projects :
                LET e == resp.body.projects[n] IN
                /\ NearestPercent(e.task_completion_percentage,
                                  e.completed_task_count, e.task_count)
                /\ NearestPercent(e.complexity_completion_percentage,
                                  e.completed_complexity, e.total_complexity)
                /\ NearestPercent(e.feature_completion_percentage,
                                  e.completed_feature_count, e.feature_count)
    /\ OverviewAnswered =>
            LET st == resp.body.stats
                joined == OverviewTasksJoined(features, tasks, IdParams(resp.id).bytes)
                completed == {r \in joined : StoredCompleted(tasks[r[1]].status)}
                done == {n \in DOMAIN resp.body.features :
                            StoredCompleted(resp.body.features[n].status)}
            IN  /\ NearestPercent(st.task_completion_percentage,
                                  st.total_completed_count, st.total_task_count)
                /\ NearestPercent(st.complexity_completion_percentage,
                                  SumComplexity(tasks, completed), SumComplexity(tasks, joined))
                /\ NearestPercent(st.feature_completion_percentage,
                                  Cardinality(done), st.feature_count)

\* a summary with a project that has nothing (all three totals 0), a project
\* whose tasks have no complexity, and a project whose complexity ratio is
\* rounded up
C14_Witness ==
    /\ SummaryAnswered
    /\ \E n \in DOMAIN resp.body.projects :
            LET e == resp.body.projects[n] IN
            e.task_count = 0 /\ e.feature_count = 0 /\ e.total_complexity = 0
    /\ \E n \in DOMAIN resp.body.projects :
            LET e == resp.body.projects[n] IN
            e.task_count > 0 /\ e.total_complexity = 0
    /\ \E n \in DOMAIN resp.body.projects :
            LET e == resp.body.projects[n] IN
            /\ e.total_complexity > 0
            /\ e.complexity_completion_percentage * e.total_complexity
                    > 100 * e.completed_complexity

\* What of an overview does not depend on days: everything but the task list
\* and the two display counts.
Unfiltered(body) ==
    [features |-> body.features,
     feature_count |-> body.stats.feature_count,
     total_task_count |-> body.stats.total_task_count,
     total_completed_count |-> body.stats.total_completed_count,
     task_completion_percentage |-> body.stats.task_completion_percentage,
     complexity_completion_percentage |-> body.stats.complexity_completion_percentage,
     feature_completion_percentage |-> body.stats.feature_completion_percentage]

OverviewWithDays(days) ==
    get_project_overview(projects, features, tasks, db_pool, resp.id, days, clock)

\* C15: the unfiltered totals and the percentage block of an answered overview
\* are those the same request gets on the same file with any other value of
\* days, absent included.
C15_TotalsIndependentOfDays ==
    OverviewAnswered =>
        \A days \in DaysInputs :
            /\ OverviewWithDays(days).code = 200
            /\ Unfiltered(OverviewWithDays(days).body) = Unfiltered(resp.body)

\* an overview asked with days whose task list is shorter than the one asked
\* without: some task of the totals is older than the window
C15_Witness ==
    /\ OverviewAnswered
    /\ ~IsNull(resp.body.days)
    /\ Len(resp.body.tasks) < Len(OverviewWithDays(NULL).body.tasks)
    /\ resp.body.stats.task_count < resp.body.stats.total_task_count
    /\ resp.body.stats.completed_count > 0

\* C16: on the file with project P1, feature F1 (not completed), a completed
\* task of complexity 8 under F1 only and a pending task of complexity 2 under
\* P1 directly, the overview of P1 asked without days reports task_count 2,
\* unfiltered completed count 1, total_complexity 10, completed_complexity 8
\* and the percentages 50, 80 and 0.
C16_OverviewOfTheExample ==
    (/\ OverviewAnswered
     /\ IsNull(resp.body.days)
     /\ \E enc \in QueryEncodings : ExampleState(enc)) =>
        LET st == resp.body.stats IN
        /\ st.task_count = 2
        /\ st.total_task_count = 2
        /\ st.total_completed_count = 1
        /\ st.task_completion_percentage = 50
        /\ st.complexity_completion_percentage = 80
        /\ st.feature_completion_percentage = 0
        /\ {"total_complexity", "completed_complexity"} \subseteq DOMAIN st
        /\ st.total_complexity = 10
        /\ st.completed_complexity = 8

\* task_count and completed_task_count of the summary entry of project row k,
\* total_task_count and total_completed_count of the overview asked with
\* id_str, were they asked on the file with the tasks rows.
SummaryCounts(rows, k) ==
    LET listed == get_projects_summary(projects, features, rows, db_pool).body.projects
        e == listed[CHOOSE n \in DOMAIN listed : listed[n].row = k]
    IN  <<e.task_count, e.completed_task_count>>

OverviewCounts(rows, id_str) ==
    LET st == get_project_overview(projects, features, rows, db_pool, id_str,
                                   NULL, clock).body.stats
    IN  <<st.total_task_count, st.total_completed_count>>

\* C18: when a status update on a writable pool has succeeded and moved a
\* task from a status that is not completed to completed, then for every
\* project the task belongs to (directly or through its feature) the summary
\* and the overview asked next report the task count they reported before
\* and a completed count one higher.
C18_AggregatesFollowStatusUpdate ==
    [][(/\ resp' # resp
        /\ resp'.op = "put_status"
        /\ resp'.code = 200
        /\ db_pool = "rw"
        /\ NormalizedStatus(tasks[resp'.row].status) # Text(ui_completed)
        /\ NormalizedStatus(tasks'[resp'.row].status) = Text(ui_completed)) =>
            \A k \in DOMAIN projects :
                resp'.row \in TasksOfValue(ValueOfStored(projects[k].id)) =>
                    /\ SummaryCounts(tasks', k) =
                            <<SummaryCounts(tasks, k)[1], SummaryCounts(tasks, k)[2] + 1>>
                    /\ \A id_str \in ProjectIds :
                            SameValue(projects[k].id, id_str) =>
                                OverviewCounts(tasks', id_str) =
                                    <<OverviewCounts(tasks, id_str)[1],
                                      OverviewCounts(tasks, id_str)[2] + 1>>]_vars

\* The tasks whose effective project is the project of value v.
EffectiveTasks(v) == {i \in DOMAIN tasks : v # <<>> /\ EffectiveProject(tasks[i]) = v}

RawCompletedOf(S) == {i \in S : StoredCompleted(tasks[i].status)}

\* C26: the task count, the completed count and the complexity sum a summary
\* entry or an overview reports for a project are those of the tasks whose
\* effective project it is, so that no task is counted for two projects and
\* a task with its own project reference is counted for that project only.
C26_CountedForEffectiveProjectOnly ==
    /\ SummaryAnswered =>
            \A n \in DOMAIN resp.body.projects :
                LET e == resp.body.projects[n]
                    S == EffectiveTasks(EntryValue(e))
                IN  /\ e.task_count = Cardinality(S)
                    /\ e.completed_task_count = Cardinality(RawCompletedOf(S))
                    /\ e.total_complexity = SumNotNull(tasks, {<<i, 0>> : i \in S})
    /\ OverviewAnswered =>
            LET S == EffectiveTasks(ValueOfText(resp.id)) IN
            /\ resp.body.stats.total_task_count = Cardinality(S)
            /\ resp.body.stats.total_completed_count = Cardinality(RawCompletedOf(S))

\* C27: an answered overview of a project and the entry the summary of the
\* same file has for that project agree on the task count, the completed
\* count, the feature count and the three completion percentages.
C27_SummaryAgreesWithOverview ==
    OverviewAnswered =>
        LET st == resp.body.stats
            summary == get_projects_summary(projects, features, tasks, db_pool).body.projects
        IN  \A n \in DOMAIN summary :
                summary[n].row = resp.row =>
                    /\ summary[n].task_count = st.total_task_count
                    /\ summary[n].completed_task_count = st.total_completed_count
                    /\ summary[n].feature_count = st.feature_count
                    /\ summary[n].task_completion_percentage =
                            st.task_completion_percentage
                    /\ summary[n].complexity_completion_percentage =
                            st.complexity_completion_percentage
                    /\ summary[n].feature_completion_percentage =
                            st.feature_completion_percentage

\* C28: in an answered overview the display counts are at most the unfiltered
\* totals, and equal to them when no days filter was given and the project
\* has at most OVERVIEW_LIMIT tasks.
C28_DisplayCountsWithinTotals ==
    OverviewAnswered =>
        LET st == resp.body.stats IN
        /\ st.task_count <= st.total_task_count
        /\ st.completed_count <= st.total_completed_count
        /\ (/\ IsNull(resp.body.days)
            /\ Cardinality(TasksOfProject(resp.id)) <= OVERVIEW_LIMIT) =>
                /\ st.task_count = st.total_task_count
                /\ st.completed_count = st.total_completed_count

\* every task's complexity is absent or a positive integer
PositiveComplexities ==
    \A i \in DOMAIN tasks :
        IsNull(tasks[i].complexity) \/ tasks[i].complexity.b[1] > 0

\* C29: on a file whose complexities are absent or positive, every summary
\* entry has completed_task_count <= task_count, completed_complexity <=
\* total_complexity and completed_feature_count <= feature_count, an
\* overview has total_completed_count <= total_task_count, and each of the
\* three percentages of either is an integer from 0 to 100.
C29_CompletedWithinTotals ==
    PositiveComplexities =>
        /\ SummaryAnswered =>
                \A n \in DOMAIN resp.body.projects :
                    LET e == resp.body.projects[n] IN
                    /\ e.completed_task_count <= e.task_count
                    /\ e.completed_complexity <= e.total_complexity
                    /\ e.completed_feature_count <= e.feature_count
                    /\ e.task_completion_percentage \in 0..100
                    /\ e.complexity_completion_percentage \in 0..100
                    /\ e.feature_completion_percentage \in 0..100
        /\ OverviewAnswered =>
                LET st == resp.body.stats IN
                /\ st.total_completed_count <= st.total_task_count
                /\ st.task_completion_percentage \in 0..100
                /\ st.complexity_completion_percentage \in 0..100
                /\ st.feature_completion_percentage \in 0..100

\* a summary with a project that is partly completed, by count and by
\* complexity, and a project that has a completed feature
C29_Witness ==
    /\ PositiveComplexities
    /\ SummaryAnswered
    /\ \E n \in DOMAIN resp.body.projects :
            LET e == resp.body.projects[n] IN
            /\ 0 < e.completed_task_count /\ e.completed_task_count < e.task_count
            /\ 0 < e.completed_complexity /\ e.completed_complexity < e.total_complexity
    /\ \E n \in DOMAIN resp.body.projects :
            resp.body.projects[n].completed_feature_count > 0

\* ------------------------------------------------------------ helper claims
HEX_DIGITS == 2 * UUID_BYTES

AllHex(s) == \A i \in DOMAIN s : HexVal(s[i]) >= 0

\* 32 hex digits, written without separators or grouped 8-4-4-4-12
WellFormed(s) ==
    LET d == RemoveChar(s, DASH) IN
    /\ Len(d) = HEX_DIGITS
    /\ AllHex(d)
    /\ s \in {d, Hyphenate(d)}

\* C23: _uuid_params given a string that holds a character that is neither a
\* hex digit nor the separator, or whose separator-stripped form is not
\* exactly 32 hex digits, returns no binary form and the string unchanged.
C23_DecodeSignalsFailure ==
    \A k \in DOMAIN call :
        (/\ call[k].fn = "_uuid_params"
         /\ LET d == RemoveChar(call[k].arg.b, DASH) IN
                ~AllHex(d) \/ Len(d) # HEX_DIGITS) =>
            /\ call[k].out = NULL
            /\ call[k].str = call[k].arg

\* C24: a well-formed identifier string decodes to 16 bytes, dict_from_row
\* renders those bytes as the string in lower case grouped 8-4-4-4-12, and
\* the rendered string decodes to the same 16 bytes.
C24_DecodeRenderRoundTrip ==
    \A k \in DOMAIN call :
        (/\ call[k].fn = "_uuid_params"
         /\ WellFormed(call[k].arg.b)) =>
            /\ call[k].out.t = "blob"
            /\ Len(call[k].out.b) = UUID_BYTES
            /\ (k < Len(call) /\ call[k + 1].fn = "dict_from_row") =>
                    /\ call[k + 1].out =
                            Text(Hyphenate(Lower(RemoveChar(call[k].arg.b, DASH))))
                    /\ (k + 1 < Len(call) /\ call[k + 2].fn = "_uuid_params") =>
                            call[k + 2].out = call[k].out

C24_Witness ==
    /\ Len(call) = 3
    /\ call[1].fn = "_uuid_params"
    /\ call[1].arg = Text(IdText(Ids.T1, FALSE, "mixed"))
    /\ call[2].fn = "dict_from_row"
    /\ call[3].fn = "_uuid_params"
    /\ call[3].arg = Text(IdText(Ids.T1, TRUE, "lower"))

UiVocabulary ==
    {ui_pending, ui_in_progress, ui_completed, ui_cancelled, ui_deferred, ui_blocked}

StorageVocabulary ==
    {DB_PENDING, DB_IN_PROGRESS, DB_COMPLETED, DB_CANCELLED, DB_DEFERRED, DB_BLOCKED}

InCritical(w) == pc[w] \in {"gc_locked", "ca_locked", "ca_cleared"}

LiveConnectionsOf(w) == {c \in 1..Len(created) : created[c] = w /\ c \notin closed}

\* C5: under any interleaving of get_connection calls the acquire-or-create
\* step is mutually exclusive, the pool holds at most one live connection per
\* worker, a worker is yielded the same connection on every acquisition since
\* the last close_all, and it is never yielded a connection that another
\* worker created.
C5_AcquireOrCreateExclusive ==
    /\ Cardinality({w \in Workers : InCritical(w)}) <= 1
    /\ \A w \in Workers :
        /\ InCritical(w) => _lock = w
        /\ Cardinality(LiveConnectionsOf(w)) <= 1
        /\ Cardinality(handed[w]) <= 1
        /\ pc[w] = "in_block" => created[connection[w]] = w

C5_Witness ==
    /\ \A w \in Workers : pc[w] = "in_block"
    /\ \A w1, w2 \in Workers : w1 # w2 => connection[w1] # connection[w2]

\* C6: a worker inside its get_connection block never has its connection
\* closed under it, and get_connection never raises "Failed to get database
\* connection" because close_all ran between its create step and its fetch.
C6_ConnectionUsableForWholeRequest ==
    \A w \in Workers :
        /\ pc[w] = "in_block" => connection[w] \notin closed
        /\ err[w] # "failed_get"

\* C7: when close_all has cleared the pool it holds no connection, and no
\* connection yielded since the last close_all is one that a close_all closed
\* (every connection that existed before the refresh was closed by it).
C7_RefreshReopens ==
    \A w \in Workers :
        /\ pc[w] = "ca_cleared" => PooledConnections = {}
        /\ handed[w] \cap closed = {}

C7_Witness ==
    \E w \in Workers :
        /\ pc[w] = "in_block"
        /\ refreshes = MaxRefresh
        /\ closed # {}
        /\ connection[w] \notin closed

\* ------------------------------------------------------ push channel claims
\* C4: the observer set is safe under concurrent add / remove / broadcast: a
\* connect or a disconnect that runs while a broadcast is suspended at a send
\* never makes the broadcast raise, and once the broadcast is done every
\* observer that stayed connected throughout has been sent the event.
C4_BroadcastSafeUnderAddRemove ==
    /\ bpc # "raised"
    /\ bpc = "done" => stayed \subseteq (delivered \cup disconnected)

====
